---- MODULE Spec2Model ----
(***************************************************************************)
(* Quiz session manager (scripts/quiz.js), its scoring engine              *)
(* (scripts/scoring.js) and the question loading it relies on.             *)
(*                                                                         *)
(* The browser runs one event-loop task at a time.  Every action below is  *)
(* one task: a click handler, a timer callback, or the stretch of an async *)
(* function between two awaits.  When no backend is configured the awaits  *)
(* of startQuiz resolve in microtasks, which run before any other task;    *)
(* with a backend they wait for the network and other tasks run meanwhile. *)
(***************************************************************************)
EXTENDS Integers, Sequences, FiniteSets, TLC

\* ------------------------------------------------------------------ bounds
\* startQuiz calls in a behaviour with overlapping starts
MaxStarts == 2
\* option clicks in such a behaviour
MaxRaceClicks == 1
\* option clicks in a behaviour with a single start
MaxClicks == 2
\* countdown ticks in a behaviour of Spec
MaxTicks == 1
\* largest questionCount passed to startQuiz
MaxCount == 1
\* option clicks in a behaviour of CountdownSpec
MaxCountdownClicks == 1
\* largest count passed to question loading alone
MaxLoadCount == 3
\* largest timeSpent passed to calculateAnswerPoints
MaxTimeSpent == 61
\* largest consecutiveCorrect passed to calculateAnswerPoints
MaxConsecutive == 2
\* longest answer list passed to calculateTotalScore
MaxAnswers == 10
\* leaderboard operations started in a behaviour
MaxBoardOps == 2
\* getTopUsers calls with a backend in a behaviour
MaxTopCalls == 3
\* clock advances in a behaviour
MaxAdvances == 2
\* changes of the store's leaderboard rows in a behaviour
MaxStoreChanges == 1
\* option clicks in a behaviour that follows the streak
MaxStreakClicks == 4
\* questions of the quiz in such a behaviour
StreakQuestions == 2
\* sessions whose results are saved in a behaviour
MaxSaves == 2
\* failures handed to handleApiError in a behaviour
MaxHandled == 6
\* entries changed by one simulated leaderboard change
MaxSimulatedUsers == 1

\* --------------------------------------------------------- program constants
TimePerQuestion == 30
EasyPoints == 10
MediumPoints == 20
HardPoints == 30
DefaultRowPoints == 10
RefreshLimit == 50
CacheTtl == 120000
MaxRetries == 3
BaseDelay == 1000
\* config.js validateEmail: the longest e-mail accepted.
MaxEmailLength == 254
\* config.js validateUsername: the shortest username accepted.
MinUsernameLength == 3
\* config.js validateUsername: the longest username accepted.
MaxUsernameLength == 20
\* APP_CONFIG.security.passwordMinLength.
PasswordMinLength == 8
\* AuthManager.isValidPassword: the score a password needs.
GoodPasswordScore == 3
\* The third argument login passes to checkRateLimit, read as the window.
LoginWindow == 5
\* The number login passes to checkRateLimit, meant as the attempts allowed.
AllowedAttempts == 5
\* The period and the age limit of monitorRateLimit, in milliseconds.
CleanEvery == 300000
\* Bound: login calls made in a run of the rate limit.
MaxLogins == 6
\* Bound: login calls made in a run of the validation.
MaxAuthLogins == 1
SimulatedMin == 10
SimulatedMax == 109

NoQuiz == [id |-> 0]
NoTimer == 0
NoQuestion == "none"

Min(a, b) == IF a < b THEN a ELSE b
\* A maximum that keeps its first argument.
firstOf(a, b) == a

Max(a, b) == IF a > b THEN a ELSE b

\* ------------------------------------------------------------ question data
\* The fixed local question list of generatePlaceholderQuestions.
placeholderQuestions ==
    << [id |-> "1",  category |-> "Geography",         difficulty |-> "easy",   points |-> 10],
       [id |-> "2",  category |-> "Science",           difficulty |-> "easy",   points |-> 10],
       [id |-> "3",  category |-> "Art",               difficulty |-> "medium", points |-> 20],
       [id |-> "4",  category |-> "Geography",         difficulty |-> "easy",   points |-> 10],
       [id |-> "5",  category |-> "History",           difficulty |-> "medium", points |-> 20],
       [id |-> "6",  category |-> "General Knowledge", difficulty |-> "medium", points |-> 20],
       [id |-> "7",  category |-> "Science",           difficulty |-> "easy",   points |-> 10],
       [id |-> "8",  category |-> "Sports",            difficulty |-> "easy",   points |-> 10],
       [id |-> "9",  category |-> "Entertainment",     difficulty |-> "easy",   points |-> 10],
       [id |-> "10", category |-> "Technology",        difficulty |-> "easy",   points |-> 10] >>

\* Rows of the questions table (a few of the seeded rows), newest first.
questionsTable ==
    << [id |-> "g1", category |-> "Geography", difficulty |-> "easy",   points |-> 10],
       [id |-> "g2", category |-> "Geography", difficulty |-> "easy",   points |-> 10],
       [id |-> "a1", category |-> "Art",       difficulty |-> "medium", points |-> 20],
       [id |-> "s1", category |-> "Science",   difficulty |-> "hard",   points |-> 30] >>

\* String.prototype.toLowerCase on the strings that occur as categories and
\* difficulties.
toLowerCase(s) ==
    CASE s = "Geography" -> "geography"
      [] s = "Science" -> "science"
      [] s = "Art" -> "art"
      [] s = "History" -> "history"
      [] s = "General Knowledge" -> "general knowledge"
      [] s = "Sports" -> "sports"
      [] s = "Entertainment" -> "entertainment"
      [] s = "Technology" -> "technology"
      [] s = "Mythology" -> "mythology"
      [] s = "Easy" -> "easy"
      [] s = "Medium" -> "medium"
      [] s = "Hard" -> "hard"
      [] OTHER -> s

\* Array.prototype.slice(0, end) applied to a list of length len: the length
\* of the result.
sliceLength(len, end) ==
    IF end < 0 THEN Max(len + end, 0) ELSE Min(end, len)

\* A shuffle that draws every position independently, so that an element can
\* be drawn twice.
shuffleAndSliceRepeating(array, count) ==
    LET k == IF count < 0 THEN 0 ELSE IF count < Len(array) THEN count ELSE Len(array)
    IN  {[i \in 1..k |-> array[f[i]]] : f \in [1..k -> 1..Len(array)]}

\* Utils.shuffleArray followed by slice(0, Math.min(count, length)): the
\* Fisher-Yates shuffle can produce every permutation, so the result is any
\* arrangement of sliceLength distinct positions of the array.
shuffleAndSlice(array, count) ==
    LET k == sliceLength(Len(array), Min(count, Len(array)))
        picks == {f \in [1..k -> 1..Len(array)] :
                     \A i, j \in 1..k : i # j => f[i] # f[j]}
    IN  {[i \in 1..k |-> array[f[i]]] : f \in picks}

\* A filtering that keeps the category filter when the difficulty filter
\* leaves nothing.
placeholderPoolRelaxing(category, difficulty) ==
    LET byCategory ==
            IF category # "" /\ category # "all"
            THEN SelectSeq(placeholderQuestions,
                     LAMBDA q : toLowerCase(q.category) = toLowerCase(category))
            ELSE placeholderQuestions
        byDifficulty ==
            IF difficulty # "" /\ difficulty # "all"
            THEN SelectSeq(byCategory,
                     LAMBDA q : toLowerCase(q.difficulty) = toLowerCase(difficulty))
            ELSE byCategory
    IN  IF Len(byDifficulty) # 0 THEN byDifficulty
        ELSE IF Len(byCategory) # 0 THEN byCategory
        ELSE placeholderQuestions

\* The filtering of generatePlaceholderQuestions, before the shuffle.
placeholderPool(category, difficulty) ==
    LET byCategory ==
            IF category # "" /\ category # "all"
            THEN SelectSeq(placeholderQuestions,
                     LAMBDA q : toLowerCase(q.category) = toLowerCase(category))
            ELSE placeholderQuestions
        byDifficulty ==
            IF difficulty # "" /\ difficulty # "all"
            THEN SelectSeq(byCategory,
                     LAMBDA q : toLowerCase(q.difficulty) = toLowerCase(difficulty))
            ELSE byCategory
    IN  IF Len(byDifficulty) = 0 THEN placeholderQuestions ELSE byDifficulty

generatePlaceholderQuestions(count, category, difficulty) ==
    shuffleAndSlice(placeholderPool(category, difficulty), count)

\* QuizManager.getPointsForDifficulty: pointsMap[difficulty] || 10.
getPointsForDifficulty(difficulty) ==
    CASE difficulty = "easy" -> EasyPoints
      [] difficulty = "medium" -> MediumPoints
      [] difficulty = "hard" -> HardPoints
      [] OTHER -> DefaultRowPoints

\* The row-to-question mapping of loadQuestionsFromDatabase:
\* points: q.points_value || this.getPointsForDifficulty(q.difficulty).
\* A points value of 0 stands for every falsy value (0, null, undefined).
transformQuestion(row) ==
    [row EXCEPT !.points = IF row.points # 0 THEN row.points
                           ELSE getPointsForDifficulty(row.difficulty)]

\* The rows the query of loadQuestionsFromDatabase returns: exact matches on
\* category and difficulty, at most count * 3 of them.
databaseRows(count, category, difficulty) ==
    LET byCategory ==
            IF category # "" /\ category # "all"
            THEN SelectSeq(questionsTable, LAMBDA q : q.category = category)
            ELSE questionsTable
        byDifficulty ==
            IF difficulty # "" /\ difficulty # "all"
            THEN SelectSeq(byCategory, LAMBDA q : q.difficulty = difficulty)
            ELSE byCategory
    IN  SubSeq(byDifficulty, 1, Min(Len(byDifficulty), Max(count * 3, 0)))

\* loadQuestionsFromDatabase: the question lists it can return; the empty
\* set when it throws because no row matches.
loadQuestionsFromDatabase(count, category, difficulty) ==
    LET data == databaseRows(count, category, difficulty)
    IN  IF Len(data) = 0 THEN {}
        ELSE {[i \in 1..Len(selected) |-> transformQuestion(selected[i])] :
                 selected \in shuffleAndSlice(data, count)}

\* loadQuestions: with a backend the database result, or the placeholder
\* list when the query fails or finds nothing; without one the placeholders.
loadQuestions(useBackend, count, category, difficulty) ==
    IF useBackend
    THEN loadQuestionsFromDatabase(count, category, difficulty)
            \cup generatePlaceholderQuestions(count, category, difficulty)
    ELSE generatePlaceholderQuestions(count, category, difficulty)

\* ------------------------------------------------------------ scoring engine
\* ScoreCalculator.getBasePoints: pointsConfig[difficulty] || medium.
getBasePoints(difficulty) ==
    CASE difficulty = "easy" -> EasyPoints
      [] difficulty = "medium" -> MediumPoints
      [] difficulty = "hard" -> HardPoints
      [] OTHER -> MediumPoints

\* Math.round of n / d for d > 0: a quotient rounded to the nearest integer
\* instead of down.
roundDiv(n, d) == (2 * n + d) \div (2 * d)

\* Math.floor of n / d for d > 0.
floorDiv(n, d) == n \div d

\* The elapsed times at which the double-precision product
\* basePoints * ((15 - t) / 15) * 0.3 falls just below the integer that the
\* exact product equals (base 10 or 20, threshold 15, -120 <= t <= 15).
floatShortfallTimes == {-115, -95, -80, -65, -50, -40, -25, -5, 5, 10}

\* ScoreCalculator.calculateSpeedBonus, with the rounding of the
\* floating-point product.
calculateSpeedBonus(basePoints, timeSpent, difficulty) ==
    LET threshold == CASE difficulty = "easy" -> 10
                       [] difficulty = "medium" -> 15
                       [] difficulty = "hard" -> 20
                       [] OTHER -> 15
        exact == floorDiv(basePoints * (threshold - timeSpent) * 3, threshold * 10)
        shortfall == threshold = 15 /\ basePoints \in {10, 20}
                        /\ timeSpent \in floatShortfallTimes
    IN  IF timeSpent <= threshold
        THEN (IF shortfall THEN exact - 1 ELSE exact)
        ELSE 0

\* The reduce((sum, item) => sum + item.amount, 0) over line items.
RECURSIVE sumAmounts(_)
sumAmounts(items) ==
    IF items = << >> THEN 0 ELSE Head(items).amount + sumAmounts(Tail(items))

\* ScoreCalculator.calculateAnswerPoints without the optional
\* perfect-accuracy flag, which submitAnswer never passes.
calculateAnswerPoints(question, isCorrect, timeSpent, consecutiveCorrect) ==
    LET basePoints == IF question.points # 0 THEN question.points
                      ELSE getBasePoints(question.difficulty)
        streakBonus == floorDiv(basePoints * 15, 10) - basePoints
        speedBonus == calculateSpeedBonus(basePoints, timeSpent, question.difficulty)
        difficultyBonus == floorDiv(basePoints * 2, 10)
        bonuses ==
            (IF consecutiveCorrect >= 2
             THEN << [type |-> "streak", amount |-> streakBonus] >> ELSE << >>)
            \o (IF speedBonus > 0
                THEN << [type |-> "speed", amount |-> speedBonus] >> ELSE << >>)
            \o (IF question.difficulty = "hard"
                THEN << [type |-> "difficulty", amount |-> difficultyBonus] >> ELSE << >>)
        penalty == floorDiv(basePoints, 10)
        timePenalty == floorDiv(penalty * 5, 10)
        penalties ==
            << [type |-> "incorrect", amount |-> penalty] >>
            \o (IF timeSpent > 60
                THEN << [type |-> "time", amount |-> timePenalty] >> ELSE << >>)
        rawPoints == IF isCorrect THEN basePoints + sumAmounts(bonuses)
                     ELSE 0 - sumAmounts(penalties)
    IN  [basePoints |-> basePoints,
         finalPoints |-> IF isCorrect THEN Max(rawPoints, 1)
                         ELSE Max(rawPoints, 0 - floorDiv(basePoints * 5, 10)),
         bonuses |-> IF isCorrect THEN bonuses ELSE << >>,
         penalties |-> IF isCorrect THEN << >> ELSE penalties,
         isCorrect |-> isCorrect]

\* The fields of the answer record of submitAnswer that calculateTotalScore
\* reads.
answerRecordOf(question, scoringResult) ==
    [isCorrect |-> scoringResult.isCorrect,
     points |-> scoringResult.finalPoints,
     basePoints |-> scoringResult.basePoints,
     difficulty |-> question.difficulty,
     bonuses |-> scoringResult.bonuses,
     penalties |-> scoringResult.penalties]

\* accuracy >= percent for accuracy = (correct / answered) * 100; with no
\* answers the quotient is NaN and every comparison is false.
accuracyAtLeast(correct, answered, percent) ==
    answered > 0 /\ 100 * correct >= percent * answered

\* ScoreCalculator.calculateCompletionBonuses.  quizInfo.category = "" stands
\* for an absent category; a timeSpent or timeLimit of 0 is falsy.
calculateCompletionBonuses(answers, correctAnswers, quizInfo) ==
    LET n == Len(answers)
        perfect == n > 0 /\ correctAnswers = n
    IN  (IF perfect
         THEN << [type |-> "perfect_score", amount |-> n * 10] >>
         ELSE IF accuracyAtLeast(correctAnswers, n, 90)
              THEN << [type |-> "high_accuracy", amount |-> n * 5] >>
              ELSE << >>)
        \o (IF n >= 10
            THEN << [type |-> "completion", amount |-> n * 2] >> ELSE << >>)
        \o (IF /\ quizInfo.timeSpent # 0 /\ quizInfo.timeLimit # 0
               /\ 2 * quizInfo.timeSpent < quizInfo.timeLimit
               /\ accuracyAtLeast(correctAnswers, n, 70)
            THEN << [type |-> "speed_completion", amount |-> n * 3] >> ELSE << >>)
        \o (IF quizInfo.category # "" /\ quizInfo.category # "all" /\ perfect
            THEN << [type |-> "category_mastery", amount |-> n * 8] >> ELSE << >>)

\* ScoreCalculator.calculateGrade: the letter, for the accuracy
\* (correct / answered) * 100, which calculateTotalScore takes as 0 when
\* nothing was answered.
calculateGrade(correct, answered) ==
    CASE accuracyAtLeast(correct, answered, 95) -> "A+"
      [] accuracyAtLeast(correct, answered, 90) -> "A"
      [] accuracyAtLeast(correct, answered, 85) -> "A-"
      [] accuracyAtLeast(correct, answered, 80) -> "B+"
      [] accuracyAtLeast(correct, answered, 75) -> "B"
      [] accuracyAtLeast(correct, answered, 70) -> "B-"
      [] accuracyAtLeast(correct, answered, 65) -> "C+"
      [] accuracyAtLeast(correct, answered, 60) -> "C"
      [] accuracyAtLeast(correct, answered, 50) -> "D"
      [] OTHER -> "F"

RECURSIVE sumPoints(_)
sumPoints(answers) ==
    IF answers = << >> THEN 0 ELSE Head(answers).points + sumPoints(Tail(answers))

RECURSIVE sumMaxPoints(_)
sumMaxPoints(answers) ==
    IF answers = << >> THEN 0
    ELSE (IF Head(answers).basePoints # 0 THEN Head(answers).basePoints
          ELSE getBasePoints(IF Head(answers).difficulty # ""
                             THEN Head(answers).difficulty ELSE "medium"))
         + sumMaxPoints(Tail(answers))

\* A total that is returned as accumulated, without the floor at 0.
calculateTotalScoreUnfloored(answers, quizInfo) ==
    LET correctAnswers == Cardinality({i \in 1..Len(answers) : answers[i].isCorrect})
        completionBonuses == calculateCompletionBonuses(answers, correctAnswers, quizInfo)
    IN  [totalPoints |-> sumPoints(answers) + sumAmounts(completionBonuses),
         correctAnswers |-> correctAnswers,
         totalQuestions |-> Len(answers),
         maxPossiblePoints |-> sumMaxPoints(answers),
         completionBonuses |-> completionBonuses,
         grade |-> calculateGrade(correctAnswers, Len(answers))]

\* ScoreCalculator.calculateTotalScore.
calculateTotalScore(answers, quizInfo) ==
    LET correctAnswers == Cardinality({i \in 1..Len(answers) : answers[i].isCorrect})
        completionBonuses == calculateCompletionBonuses(answers, correctAnswers, quizInfo)
        totalPoints == sumPoints(answers) + sumAmounts(completionBonuses)
    IN  [totalPoints |-> Max(0, totalPoints),
         correctAnswers |-> correctAnswers,
         totalQuestions |-> Len(answers),
         maxPossiblePoints |-> sumMaxPoints(answers),
         completionBonuses |-> completionBonuses,
         grade |-> calculateGrade(correctAnswers, Len(answers))]

\* ---------------------------------------------------------------- leaderboard
\* The list initializePlaceholderData installs (id, total points, quizzes
\* completed, rank).
placeholderLeaderboard ==
    << [id |-> "1",  totalPoints |-> 15420, quizzesCompleted |-> 87, rank |-> 1],
       [id |-> "2",  totalPoints |-> 14850, quizzesCompleted |-> 92, rank |-> 2],
       [id |-> "3",  totalPoints |-> 13990, quizzesCompleted |-> 78, rank |-> 3],
       [id |-> "4",  totalPoints |-> 12750, quizzesCompleted |-> 65, rank |-> 4],
       [id |-> "5",  totalPoints |-> 11980, quizzesCompleted |-> 71, rank |-> 5],
       [id |-> "6",  totalPoints |-> 10850, quizzesCompleted |-> 58, rank |-> 6],
       [id |-> "7",  totalPoints |-> 9720,  quizzesCompleted |-> 54, rank |-> 7],
       [id |-> "8",  totalPoints |-> 8950,  quizzesCompleted |-> 49, rank |-> 8],
       [id |-> "9",  totalPoints |-> 8200,  quizzesCompleted |-> 46, rank |-> 9],
       [id |-> "10", totalPoints |-> 7650,  quizzesCompleted |-> 42, rank |-> 10] >>

\* A list of three users at 100, 100 and 50 points.
threeUserLeaderboard ==
    << [id |-> "1", totalPoints |-> 100, quizzesCompleted |-> 1, rank |-> 1],
       [id |-> "2", totalPoints |-> 100, quizzesCompleted |-> 1, rank |-> 2],
       [id |-> "3", totalPoints |-> 50,  quizzesCompleted |-> 1, rank |-> 3] >>

\* One step of a stable sort by (a, b) => b.totalPoints - a.totalPoints: the
\* entry goes behind every entry with at least as many points.
insertByPoints(sorted, entry) ==
    LET ahead == Cardinality({i \in 1..Len(sorted) :
                                 sorted[i].totalPoints >= entry.totalPoints})
    IN  SubSeq(sorted, 1, ahead) \o << entry >> \o SubSeq(sorted, ahead + 1, Len(sorted))

\* A sort that leaves the list in the order it has.
sortKeepingOrder(list) == list

\* Array.prototype.sort((a, b) => b.totalPoints - a.totalPoints), which is
\* stable.
RECURSIVE sortByPoints(_)
sortByPoints(list) ==
    IF list = << >> THEN << >>
    ELSE insertByPoints(sortByPoints(SubSeq(list, 1, Len(list) - 1)), list[Len(list)])

\* A ranking that numbers the entries from 0.
assignRanksFromZero(list) == [i \in 1..Len(list) |-> [list[i] EXCEPT !.rank = i - 1]]

\* forEach((user, index) => { user.rank = index + 1; }).
assignRanks(list) == [i \in 1..Len(list) |-> [list[i] EXCEPT !.rank = i]]

\* The re-sort and re-rank that end updatePlaceholderUserScore and
\* simulateLeaderboardChanges.
resort(list) == assignRanks(sortByPoints(list))

\* The entry objects of list after the entries of ranked, which are the same
\* objects, have been given their ranks: the order of list is kept.
withRanksOf(list, ranked) ==
    [i \in 1..Len(list) |->
        LET at == {k \in 1..Len(ranked) : ranked[k].id = list[i].id}
        IN  IF at = {} THEN list[i]
            ELSE [list[i] EXCEPT !.rank = ranked[CHOOSE k \in at : TRUE].rank]]

\* The mutation of updatePlaceholderUserScore before the re-sort: a new entry
\* for an unknown user, or the points added to the user's entry.
withUserScore(list, userId, newScore) ==
    IF \E i \in 1..Len(list) : list[i].id = userId
    THEN [i \in 1..Len(list) |->
            IF list[i].id = userId
            THEN [list[i] EXCEPT !.totalPoints = @ + newScore,
                                 !.quizzesCompleted = @ + 1]
            ELSE list[i]]
    ELSE Append(list, [id |-> userId, totalPoints |-> newScore,
                       quizzesCompleted |-> 1, rank |-> 0])

\* LeaderboardManager.updatePlaceholderUserScore.
updatePlaceholderUserScore(list, userId, newScore) ==
    resort(withUserScore(list, userId, newScore))

\* The sorted, ranked copy getTopUsersFromPlaceholder works on.
rankedCopy(list) == assignRanks(sortByPoints(list))

\* slice(0, limit) of a list.
topSlice(list, limit) == SubSeq(list, 1, sliceLength(Len(list), limit))

\* ------------------------------------------------------------ session state
VARIABLES
    backend,              \* authManager.supabase && authManager.isInitialized
    currentQuiz,          \* QuizManager.currentQuiz (NoQuiz for null)
    questions,            \* QuizManager.questions
    currentQuestionIndex, \* QuizManager.currentQuestionIndex (0-based)
    userAnswers,          \* QuizManager.userAnswers
    score,                \* QuizManager.score
    timeRemaining,        \* QuizManager.timeRemaining
    timer,                \* QuizManager.timer, the handle of the last setInterval
    isQuizActive,         \* QuizManager.isQuizActive
    intervals,            \* handles of the setInterval timers not yet cleared
    calls,                \* the startQuiz invocations and where each one stands
    shownQuestion,        \* id of the question whose option buttons are in the page
    buttonsEnabled,       \* whether those option buttons accept clicks
    pendingSubmits,       \* answers waiting in the 800 ms timeouts of selectAnswer
    pendingAdvances,      \* number of 2 s advance timeouts of submitAnswer not yet run
    clicks,               \* option clicks made so far
    ticks,                \* countdown ticks fired so far
    budget,               \* how many starts, clicks and ticks a behaviour explores
    quizResults,          \* the 'quiz_results' list in local storage
    lastEnd,              \* what the latest endQuiz call returned
    lastSubmit,           \* what the latest submitAnswer call returned
    loadRequest,          \* arguments of a lone loadQuestions call
    loadResult,           \* the list that call returned
    answerCall,           \* arguments of a lone calculateAnswerPoints call
    answerResult,         \* what that call returned
    totalCall,            \* arguments of a lone calculateTotalScore call
    totalResult,          \* what that call returned
    leaderboardData,      \* LeaderboardManager.leaderboardData
    subscribers,          \* LeaderboardManager.subscribers, as callback names
    boardTimers,          \* leaderboard calls waiting for their 300 ms timeout
    lastTopUsers,         \* what the latest getTopUsers call returned
    lastNotification,     \* the latest run of notifySubscribers
    unsubscribed,         \* callbacks whose unsubscribe function has been called
    lastBoardOp,          \* the leaderboard operation that completed last
    boardOps,             \* leaderboard operations started so far
    clock,                \* Date.now(), in ms since the page was loaded
    cache,                \* PerformanceManager.cache: key -> data and expiry
    pendingQueries,       \* leaderboard queries the store has not answered yet
    storeVersion,         \* how often the store's leaderboard rows have changed
    fetched,              \* per (category, limit): the latest answer of the store
    lastTopCall,          \* the latest getTopUsers call with a backend
    cacheBudget,          \* calls, clock advances and store changes so far
    lastRefresh,          \* the latest refresh with a backend: what it delivered
    lastScoring,          \* what the latest submitAnswer passed to the scoring and got
    storeHealth,          \* how the store answers writes of answers and of sessions
    errorLog,             \* messages written with console.error
    profile,              \* the signed-in user's row of the profiles table
    sessionRow,           \* the quiz_sessions row of the session being saved
    saveCall,             \* the saveQuizResults call in progress and where it stands
    scoreUpdates,         \* the scores updateUserScore was called with
    savedScores,          \* the final scores of the sessions whose save has finished
    retryAttempts,        \* ErrorHandler.retryAttempts for the one operation key (0: no entry)
    retryCall,            \* the handleApiError call in progress and where it stands
    retryDelays,          \* delays of the retries since the operation last succeeded
    reported,             \* whether the latest handleApiError call told the user
    handled,              \* failures handed to handleApiError so far
    rateLimits,           \* SecurityManager.rateLimits: request times kept under each key
    authCall,             \* the register or login call in progress and where it stands
    loginAttempts,        \* e-mail and time of every login call made so far
    loginClock,           \* Date.now() as the rate limit reads it
    securityManager,      \* whether window.securityManager is there
    errorHandler          \* whether window.errorHandler is there

sessionVars == << currentQuiz, questions, currentQuestionIndex, userAnswers,
                  score, timeRemaining, timer, isQuizActive >>
browserVars == << intervals, shownQuestion, buttonsEnabled, pendingSubmits,
                  pendingAdvances, clicks, ticks >>
observedVars == << quizResults, lastEnd, lastSubmit >>
loadVars == << loadRequest, loadResult >>
scoringVars == << answerCall, answerResult, totalCall, totalResult >>
boardVars == << leaderboardData, subscribers, boardTimers, lastTopUsers,
               lastNotification, unsubscribed, lastBoardOp, boardOps >>
cacheVars == << clock, cache, pendingQueries, storeVersion, fetched, lastTopCall,
               cacheBudget, lastRefresh >>
streakVars == << lastScoring >>
outageVars == << storeHealth, errorLog >>
saveVars == << profile, sessionRow, saveCall, scoreUpdates, savedScores >>
retryVars == << retryAttempts, retryCall, retryDelays, reported, handled >>
authVars == << rateLimits, authCall, loginAttempts, loginClock, securityManager,
              errorHandler >>
laterVars == << streakVars, outageVars, saveVars, retryVars, authVars >>
otherVars == << scoringVars, boardVars, cacheVars, laterVars >>
quizVars == << backend, budget, sessionVars, browserVars, calls, observedVars >>
vars == << quizVars, loadVars, otherVars >>

CallIds == 1..MaxStarts

\* Category and difficulty pairs passed to startQuiz.
QuizFilters == { << "Geography", "easy" >>, << "Art", "medium" >> }

noRequest == [made |-> FALSE, count |-> 0, category |-> "", difficulty |-> ""]

blankQuestion == [id |-> "", category |-> "", difficulty |-> "", points |-> 0]
noAnswerCall == [made |-> FALSE, origin |-> "", question |-> blankQuestion,
                 isCorrect |-> FALSE, timeSpent |-> 0, consecutiveCorrect |-> 0]
noAnswerResult == [basePoints |-> 0, finalPoints |-> 0, bonuses |-> << >>,
                   penalties |-> << >>, isCorrect |-> FALSE]
noQuizInfo == [category |-> "", timeSpent |-> 0, timeLimit |-> 0]
noTotalCall == [made |-> FALSE, answers |-> << >>, quizInfo |-> noQuizInfo]
noTotalResult == [totalPoints |-> 0, correctAnswers |-> 0, totalQuestions |-> 0,
                  maxPossiblePoints |-> 0, completionBonuses |-> << >>, grade |-> ""]

noTopUsers == [made |-> FALSE, users |-> << >>, total |-> 0]
noResult == [users |-> << >>, total |-> 0, category |-> ""]
noFetch == [known |-> FALSE, at |-> 0, result |-> noResult]
noTopCall ==
    [made |-> FALSE, category |-> "", limit |-> 0, at |-> 0, served |-> "none",
     fetchedBefore |-> noFetch, result |-> noResult]
\* No refresh with a backend has delivered a list.
noRefresh == [made |-> FALSE, served |-> "none", storeRows |-> << >>, delivered |-> << >>]
noScoring == [made |-> FALSE, isCorrect |-> FALSE, consecutiveCorrect |-> 0,
              answersBefore |-> << >>, bonuses |-> << >>]
healthyStore == [answers |-> "ok", sessions |-> "ok"]
noSessionRow == [exists |-> FALSE, status |-> "none", total_points |-> 0]
noSave ==
    [pc |-> "idle", score |-> 0, signedIn |-> FALSE, statsUpdated |-> FALSE,
     leaderboardCalled |-> FALSE,
     before |-> [total_points |-> 0, quizzes_completed |-> 0],
     read |-> [total_points |-> 0, quizzes_completed |-> 0]]
noRetry == [pc |-> "idle", attempts |-> 0]
\* The scripts of the page have run: both managers are on window.
managersLoaded == securityManager = TRUE /\ errorHandler = TRUE
\* No register or login call has been made.
noAuthCall == [op |-> "none", pc |-> "idle", email |-> "", username |-> "",
               password |-> "", networkCalled |-> FALSE, refused |-> FALSE,
               success |-> FALSE, error |-> "none", message |-> ""]
noNotification ==
    [made |-> FALSE, subscribedAtStart |-> << >>, unsubscribedAtStart |-> {},
     invoked |-> << >>, data |-> << >>]

idleCall == [pc |-> "idle", category |-> "", difficulty |-> "", questionCount |-> 0]

\* The state a new QuizManager is constructed in.
constructed ==
    /\ backend \in BOOLEAN
    /\ currentQuiz = NoQuiz
    /\ questions = << >>
    /\ currentQuestionIndex = 0
    /\ userAnswers = << >>
    /\ score = 0
    /\ timeRemaining = 0
    /\ timer = NoTimer
    /\ isQuizActive = FALSE
    /\ intervals = {}
    /\ calls = [c \in CallIds |-> idleCall]
    /\ shownQuestion = NoQuestion
    /\ buttonsEnabled = FALSE
    /\ pendingSubmits = << >>
    /\ pendingAdvances = 0
    /\ clicks = 0
    /\ ticks = 0
    /\ quizResults = << >>
    /\ lastEnd = "none"
    /\ lastSubmit = "none"
    /\ loadRequest = noRequest
    /\ loadResult = << >>
    /\ answerCall = noAnswerCall
    /\ answerResult = noAnswerResult
    /\ totalCall = noTotalCall
    /\ totalResult = noTotalResult
    /\ subscribers = << >>
    /\ boardTimers = << >>
    /\ lastTopUsers = noTopUsers
    /\ lastNotification = noNotification
    /\ unsubscribed = {}
    /\ lastBoardOp = "none"
    /\ clock = 0
    /\ cache = << >>
    /\ pendingQueries = << >>
    /\ storeVersion = 0
    /\ fetched = [request \in {} |-> noFetch]
    /\ lastTopCall = noTopCall
    /\ cacheBudget = [calls |-> 0, advances |-> 0, changes |-> 0]
    /\ lastRefresh = noRefresh
    /\ lastScoring = noScoring
    /\ errorLog = {}
    /\ profile = [total_points |-> 0, quizzes_completed |-> 0]
    /\ sessionRow = noSessionRow
    /\ saveCall = noSave
    /\ scoreUpdates = << >>
    /\ savedScores = << >>
    /\ retryAttempts = 0
    /\ retryCall = noRetry
    /\ retryDelays = << >>
    /\ reported = FALSE
    /\ handled = 0
    /\ rateLimits = [key \in {} |-> << >>]
    /\ authCall = noAuthCall
    /\ loginAttempts = << >>
    /\ loginClock = 0
    /\ boardOps = 0

\* Spec explores two kinds of behaviour: several startQuiz calls, which may
\* overlap, with few clicks; and one startQuiz call with more clicks.
Budgets ==
    { [starts |-> MaxStarts, clicks |-> MaxRaceClicks, ticks |-> MaxTicks],
      [starts |-> 1, clicks |-> MaxClicks, ticks |-> MaxTicks] }

Init ==
    /\ constructed
    /\ managersLoaded
    /\ storeHealth = healthyStore
    /\ leaderboardData = placeholderLeaderboard
    /\ budget \in Budgets

\* A startQuiz invocation is suspended at one of its awaits.
inFlight(c) == calls[c].pc \in {"load", "create"}

\* Without a backend the awaits of startQuiz resolve in microtasks, so no
\* other task runs until the invocation has finished.
canRunTask == backend \/ \A c \in CallIds : ~inFlight(c)

\* A save of an answer that lets an exception of the store go through.
saveAnswerToDatabaseUncaught(health) ==
    IF ~backend \/ health = "ok" THEN [completed |-> TRUE, logged |-> {}]
    ELSE IF health = "rejected"
    THEN [completed |-> TRUE, logged |-> {"Failed to save answer"}]
    ELSE [completed |-> FALSE, logged |-> {}]

\* QuizManager.saveAnswerToDatabase when the store accepts the insert,
\* answers it with an error, or the request throws: whether the call
\* completes without an exception, and what it logs.
saveAnswerToDatabase(health) ==
    IF ~backend \/ health = "ok" THEN [completed |-> TRUE, logged |-> {}]
    ELSE IF health = "rejected"
    THEN [completed |-> TRUE, logged |-> {"Failed to save answer"}]
    ELSE [completed |-> TRUE, logged |-> {"Error saving answer to database"}]

\* QuizManager.updateQuizSession, likewise.
updateQuizSession(health) ==
    IF ~backend \/ health = "ok" THEN [completed |-> TRUE, logged |-> {}]
    ELSE IF health = "rejected"
    THEN [completed |-> TRUE, logged |-> {"Failed to update quiz session"}]
    ELSE [completed |-> TRUE, logged |-> {"Error updating quiz session"}]

\* A count of every correct record of the list, wherever it stands.
countAllCorrect(answers) ==
    Cardinality({i \in 1..Len(answers) : answers[i].isCorrect})

\* QuizManager.getConsecutiveCorrectCount over a given answer list.
RECURSIVE getConsecutiveCorrectCount(_)
getConsecutiveCorrectCount(answers) ==
    IF answers = << >> \/ ~answers[Len(answers)].isCorrect THEN 0
    ELSE 1 + getConsecutiveCorrectCount(SubSeq(answers, 1, Len(answers) - 1))

\* QuizManager.calculateResults, the fields the properties below speak of.
calculateResults ==
    LET correctAnswers ==
            Cardinality({i \in 1..Len(userAnswers) : userAnswers[i].isCorrect})
        totalQuestions == Len(questions)
    IN  [quizId |-> currentQuiz.id,
         totalQuestions |-> totalQuestions,
         correctAnswers |-> correctAnswers,
         incorrectAnswers |-> totalQuestions - correctAnswers,
         answers |-> [i \in 1..Len(userAnswers) |-> userAnswers[i].isCorrect]]

\* QuizManager.endQuiz: what it does to the timer, the status and the saved
\* results.  With no current quiz calculateResults throws after the status
\* has been cleared.
endQuiz ==
    IF ~isQuizActive
    THEN /\ lastEnd' = "null"
         /\ UNCHANGED << timer, intervals, isQuizActive, quizResults >>
    ELSE /\ timer' = NoTimer
         /\ intervals' = intervals \ {timer}
         /\ isQuizActive' = FALSE
         /\ IF currentQuiz = NoQuiz
            THEN lastEnd' = "throw" /\ UNCHANGED quizResults
            ELSE /\ lastEnd' = "results"
                 /\ quizResults' = Append(quizResults, calculateResults)

\* QuizManager.showCurrentQuestion with the status and index it will see:
\* renderQuestionOptions replaces the option buttons by fresh, enabled ones.
showCurrentQuestion(active, index) ==
    IF active /\ index < Len(questions)
    THEN shownQuestion' = questions[index + 1].id /\ buttonsEnabled' = TRUE
    ELSE UNCHANGED << shownQuestion, buttonsEnabled >>

\* ------------------------------------------------------------------ actions
\* startQuiz up to its first await: resetQuizState, then the call of
\* loadQuestions.
StartQuiz(c, category, difficulty, questionCount) ==
    /\ canRunTask
    /\ calls[c].pc = "idle"
    /\ c <= budget.starts
    /\ \A d \in CallIds : d < c => calls[d].pc # "idle"
    /\ currentQuiz' = NoQuiz
    /\ questions' = << >>
    /\ currentQuestionIndex' = 0
    /\ userAnswers' = << >>
    /\ score' = 0
    /\ timeRemaining' = 0
    /\ isQuizActive' = FALSE
    /\ timer' = NoTimer
    /\ intervals' = IF timer # NoTimer THEN intervals \ {timer} ELSE intervals
    /\ calls' = [calls EXCEPT ![c] = [pc |-> "load", category |-> category,
                                      difficulty |-> difficulty,
                                      questionCount |-> questionCount]]
    /\ UNCHANGED << backend, budget, shownQuestion, buttonsEnabled, pendingSubmits,
                    pendingAdvances, clicks, ticks, observedVars, loadVars, otherVars >>

\* startQuiz from the return of loadQuestions to the await of
\* createQuizSession: the questions and the new currentQuiz are stored.
QuestionsLoaded(c) ==
    /\ calls[c].pc = "load"
    /\ \E loaded \in loadQuestions(backend, calls[c].questionCount,
                                   calls[c].category, calls[c].difficulty) :
            questions' = loaded
    /\ currentQuiz' = [id |-> c,
                       category |-> calls[c].category,
                       difficulty |-> calls[c].difficulty,
                       questionCount |-> calls[c].questionCount,
                       timeLimit |-> calls[c].questionCount * TimePerQuestion]
    /\ calls' = [calls EXCEPT ![c].pc = "create"]
    /\ UNCHANGED << backend, budget, currentQuestionIndex, userAnswers, score,
                    timeRemaining, timer, isQuizActive, browserVars,
                    observedVars, loadVars, otherVars >>

\* startQuiz after createQuizSession: the status is set, then the time limit
\* of whatever currentQuiz now is gets read; if another startQuiz has reset
\* it to null that read throws and the catch block returns a failure.
SessionCreated(c) ==
    /\ calls[c].pc = "create"
    /\ isQuizActive' = TRUE
    /\ IF currentQuiz = NoQuiz
       THEN /\ calls' = [calls EXCEPT ![c] = [idleCall EXCEPT !.pc = "failed"]]
            /\ UNCHANGED << timeRemaining, timer, intervals, shownQuestion,
                            buttonsEnabled >>
       ELSE /\ timeRemaining' = currentQuiz.timeLimit
            /\ timer' = c
            /\ intervals' = intervals \cup {c}
            /\ showCurrentQuestion(TRUE, currentQuestionIndex)
            /\ calls' = [calls EXCEPT ![c] = [idleCall EXCEPT !.pc = "started"]]
    /\ UNCHANGED << backend, budget, currentQuiz, questions, currentQuestionIndex,
                    userAnswers, score, pendingSubmits, pendingAdvances,
                    clicks, ticks, observedVars, loadVars, otherVars >>

\* A click on an enabled option button runs selectAnswer: the answer is
\* handed to a timeout that will submit it, and every button is re-enabled.
SelectAnswer(matchesShown) ==
    /\ canRunTask
    /\ clicks < budget.clicks
    /\ shownQuestion # NoQuestion
    /\ buttonsEnabled
    /\ isQuizActive
    /\ pendingSubmits' = Append(pendingSubmits,
                                [questionId |-> shownQuestion,
                                 isCorrectOption |-> matchesShown])
    /\ clicks' = clicks + 1
    /\ UNCHANGED << backend, budget, sessionVars, intervals, shownQuestion,
                    buttonsEnabled, pendingAdvances, ticks, calls,
                    observedVars, loadVars, otherVars >>

\* The timeout of selectAnswer fires and runs submitAnswer.
SubmitAnswer ==
    /\ canRunTask
    /\ pendingSubmits # << >>
    /\ pendingSubmits' = Tail(pendingSubmits)
    /\ IF ~isQuizActive \/ currentQuestionIndex >= Len(questions)
       THEN /\ lastSubmit' = "failure"
            /\ UNCHANGED << userAnswers, score, buttonsEnabled, pendingAdvances,
                            lastScoring, errorLog >>
       ELSE LET answer == Head(pendingSubmits)
                question == questions[currentQuestionIndex + 1]
                isCorrect == answer.isCorrectOption /\ answer.questionId = question.id
                consecutiveCorrect == getConsecutiveCorrectCount(userAnswers)
                elapsed == currentQuiz.timeLimit - timeRemaining
                timeSpentOnQuestion ==
                    elapsed - (IF Len(userAnswers) > 0
                               THEN userAnswers[Len(userAnswers)].timeSpent ELSE 0)
                scoringResult == calculateAnswerPoints(question, isCorrect,
                                     timeSpentOnQuestion, consecutiveCorrect)
                answerRecord == [questionId |-> question.id,
                                 questionIndex |-> currentQuestionIndex,
                                 isCorrect |-> isCorrect,
                                 points |-> scoringResult.finalPoints,
                                 timeSpent |-> elapsed]
                saved == saveAnswerToDatabase(storeHealth.answers)
                updated == updateQuizSession(storeHealth.sessions)
            IN  /\ userAnswers' = Append(userAnswers, answerRecord)
                /\ score' = score + scoringResult.finalPoints
                /\ IF ~saved.completed
                   THEN /\ errorLog' = errorLog
                        /\ lastSubmit' = "rejected"
                        /\ UNCHANGED << buttonsEnabled, pendingAdvances >>
                   ELSE IF ~updated.completed
                   THEN /\ errorLog' = errorLog \cup saved.logged
                        /\ lastSubmit' = "rejected"
                        /\ UNCHANGED << buttonsEnabled, pendingAdvances >>
                   ELSE /\ errorLog' = errorLog \cup saved.logged \cup updated.logged
                        /\ buttonsEnabled' = FALSE
                        /\ pendingAdvances' = pendingAdvances + 1
                        /\ lastSubmit' = "success"
                /\ lastScoring' =
                       [made |-> TRUE, isCorrect |-> isCorrect,
                        consecutiveCorrect |-> consecutiveCorrect,
                        answersBefore |-> [i \in 1..Len(userAnswers) |->
                                              userAnswers[i].isCorrect],
                        bonuses |-> scoringResult.bonuses]
    /\ UNCHANGED << backend, budget, currentQuiz, questions, currentQuestionIndex,
                    timeRemaining, timer, isQuizActive, intervals,
                    shownQuestion, clicks, ticks, calls, quizResults, lastEnd,
                    loadVars, scoringVars, boardVars, cacheVars, storeHealth, saveVars,
                    retryVars, authVars >>

\* The 2 s timeout of submitAnswer fires: next question, or the end.
AdvanceQuestion ==
    /\ canRunTask
    /\ pendingAdvances > 0
    /\ pendingAdvances' = pendingAdvances - 1
    /\ currentQuestionIndex' = currentQuestionIndex + 1
    /\ IF currentQuestionIndex + 1 >= Len(questions)
       THEN endQuiz /\ UNCHANGED << shownQuestion, buttonsEnabled >>
       ELSE /\ showCurrentQuestion(isQuizActive, currentQuestionIndex + 1)
            /\ UNCHANGED << timer, intervals, isQuizActive, quizResults, lastEnd >>
    /\ UNCHANGED << backend, budget, currentQuiz, questions, userAnswers, score,
                    timeRemaining, pendingSubmits, clicks, ticks, calls, lastSubmit,
                    loadVars, otherVars >>

\* A countdown callback that decrements and never tests for expiry.
TickWithoutExpiry(h) ==
    /\ canRunTask
    /\ h \in intervals
    /\ ticks < budget.ticks
    /\ ticks' = ticks + 1
    /\ timeRemaining' = timeRemaining - 1
    /\ UNCHANGED << backend, budget, currentQuiz, questions, currentQuestionIndex,
                    userAnswers, score, timer, isQuizActive, intervals,
                    shownQuestion, buttonsEnabled, pendingSubmits,
                    pendingAdvances, clicks, calls, observedVars, loadVars, otherVars >>

\* One firing of the setInterval callback of startTimer with handle h.
Tick(h) ==
    /\ canRunTask
    /\ h \in intervals
    /\ ticks < budget.ticks
    /\ ticks' = ticks + 1
    /\ timeRemaining' = timeRemaining - 1
    /\ IF timeRemaining - 1 <= 0
       THEN endQuiz
       ELSE UNCHANGED << timer, intervals, isQuizActive, quizResults, lastEnd >>
    /\ UNCHANGED << backend, budget, currentQuiz, questions, currentQuestionIndex,
                    userAnswers, score, shownQuestion, buttonsEnabled,
                    pendingSubmits, pendingAdvances, clicks, calls,
                    lastSubmit, loadVars, otherVars >>

\* The quit button of the page calls endQuiz.
QuitQuiz ==
    /\ canRunTask
    /\ endQuiz
    /\ UNCHANGED << backend, budget, currentQuiz, questions, currentQuestionIndex,
                    userAnswers, score, timeRemaining, shownQuestion,
                    buttonsEnabled, pendingSubmits, pendingAdvances, clicks, ticks,
                    calls, lastSubmit, loadVars, otherVars >>

Next ==
    \/ \E c \in CallIds, f \in QuizFilters, n \in 0..MaxCount :
           StartQuiz(c, f[1], f[2], n)
    \/ \E c \in CallIds : QuestionsLoaded(c)
    \/ \E c \in CallIds : SessionCreated(c)
    \/ \E m \in BOOLEAN : SelectAnswer(m)
    \/ SubmitAnswer
    \/ AdvanceQuestion
    \/ \E h \in CallIds : Tick(h)
    \/ QuitQuiz

Spec == Init /\ [][Next]_vars

\* A behaviour of CountdownSpec has one startQuiz call and enough ticks for
\* its countdown to run out.
CountdownInit ==
    /\ constructed
    /\ managersLoaded
    /\ storeHealth = healthyStore
    /\ leaderboardData = placeholderLeaderboard
    /\ budget = [starts |-> 1, clicks |-> MaxCountdownClicks,
                 ticks |-> TimePerQuestion * MaxCount + 1]

\* The interval timer keeps firing while it is set, and the awaited calls of
\* startQuiz return.
CountdownSpec ==
    /\ CountdownInit
    /\ [][Next]_vars
    /\ WF_vars(\E h \in CallIds : Tick(h))
    /\ WF_vars(\E c \in CallIds : QuestionsLoaded(c))
    /\ WF_vars(\E c \in CallIds : SessionCreated(c))

\* ------------------------------------------------------ one longer session
\* One startQuiz call for a quiz of several questions, and enough clicks
\* for a run of correct answers to build up and to break.
StreakNext ==
    \/ StartQuiz(1, "Geography", "easy", StreakQuestions)
    \/ QuestionsLoaded(1)
    \/ SessionCreated(1)
    \/ \E m \in BOOLEAN : SelectAnswer(m)
    \/ SubmitAnswer
    \/ AdvanceQuestion
    \/ Tick(1)
    \/ QuitQuiz

StreakInit ==
    /\ constructed
    /\ managersLoaded
    /\ storeHealth = healthyStore
    /\ leaderboardData = placeholderLeaderboard
    /\ budget = [starts |-> 1, clicks |-> MaxStreakClicks, ticks |-> MaxTicks]

StreakSpec == StreakInit /\ [][StreakNext]_vars

\* ------------------------------------------------- a store that fails
\* How the store can answer a write: it accepts it, answers with an error,
\* or the request throws.
StoreAnswers == {"ok", "rejected", "throws"}

\* One session with a backend whose writes of answers and of session
\* progress succeed or fail in one of these ways.
OutageInit ==
    /\ constructed
    /\ managersLoaded
    /\ backend = TRUE
    /\ leaderboardData = placeholderLeaderboard
    /\ storeHealth \in [answers : StoreAnswers, sessions : StoreAnswers]
    /\ budget = [starts |-> 1, clicks |-> MaxClicks, ticks |-> MaxTicks]

OutageSpec == OutageInit /\ [][Next]_vars

\* ------------------------------------------------- saving a session's result
\* The store's trigger update_user_stats on an update of a quiz_sessions
\* row: when the row becomes completed, the profile gets the row's points
\* and one more completed quiz.
update_user_stats(old, new, row) ==
    IF new.status = "completed" /\ old.status # "completed"
    THEN [total_points |-> row.total_points + new.total_points,
          quizzes_completed |-> row.quizzes_completed + 1]
    ELSE row

\* endQuiz calls saveQuizResults with the session's results.  Without a
\* backend, or with nobody signed in, the call runs to its end at once: the
\* results go to local storage, and updateUserStatistics returns before it
\* does anything.  Otherwise saveResultsToDatabase sends the completion of
\* the session to the store.
SaveQuizResults(finalScore, signedIn, hasSession) ==
    /\ saveCall.pc \in {"idle", "done"}
    /\ Len(savedScores) < MaxSaves
    /\ sessionRow' = IF backend /\ hasSession
                     THEN [exists |-> TRUE, status |-> "active", total_points |-> 0]
                     ELSE noSessionRow
    /\ IF backend /\ signedIn
       THEN /\ saveCall' = [noSave EXCEPT !.pc = "session", !.score = finalScore,
                                          !.signedIn = signedIn, !.before = profile]
            /\ UNCHANGED << quizResults, savedScores >>
       ELSE /\ saveCall' = [noSave EXCEPT !.pc = "done", !.score = finalScore,
                                          !.signedIn = signedIn, !.before = profile]
            /\ quizResults' = Append(quizResults, [quizId |-> 0, score |-> finalScore])
            /\ savedScores' = Append(savedScores, finalScore)
    /\ UNCHANGED << backend, budget, sessionVars, browserVars, calls, lastEnd, lastSubmit,
                    loadVars, scoringVars, boardVars, cacheVars, streakVars, outageVars, retryVars, authVars,
                    profile, scoreUpdates >>

\* The store answers the update of the session row (the trigger runs when
\* the update is applied) and the insert of the result; the results go to
\* local storage and updateUserStatistics asks for the profile.
SessionCompleted ==
    /\ saveCall.pc = "session"
    /\ IF sessionRow.exists /\ storeHealth.sessions = "ok"
       THEN LET new == [sessionRow EXCEPT !.status = "completed",
                                          !.total_points = saveCall.score]
            IN  /\ sessionRow' = new
                /\ profile' = update_user_stats(sessionRow, new, profile)
       ELSE UNCHANGED << sessionRow, profile >>
    /\ quizResults' = Append(quizResults, [quizId |-> 0, score |-> saveCall.score])
    /\ saveCall' = [saveCall EXCEPT !.pc = "read"]
    /\ UNCHANGED << backend, budget, sessionVars, browserVars, calls, lastEnd, lastSubmit,
                    loadVars, scoringVars, boardVars, cacheVars, streakVars, outageVars, retryVars, authVars,
                    scoreUpdates, savedScores >>

\* The store answers the select of the profile: with the row, or with none,
\* and then updateUserStatistics ends.
ProfileRead(found) ==
    /\ saveCall.pc = "read"
    /\ IF found
       THEN /\ saveCall' = [saveCall EXCEPT !.pc = "update", !.read = profile]
            /\ UNCHANGED savedScores
       ELSE /\ saveCall' = [saveCall EXCEPT !.pc = "done"]
            /\ savedScores' = Append(savedScores, saveCall.score)
    /\ UNCHANGED << quizVars, loadVars, scoringVars, boardVars, cacheVars, streakVars,
                    outageVars, retryVars, authVars, profile, sessionRow, scoreUpdates >>

\* The store applies the profile update computed from the row that was
\* read; then updateUserScore is called if window.leaderboardManager is set.
ProfileUpdated(leaderboardManager) ==
    /\ saveCall.pc = "update"
    /\ profile' = [total_points |-> saveCall.read.total_points + saveCall.score,
                   quizzes_completed |-> saveCall.read.quizzes_completed + 1]
    /\ scoreUpdates' = IF leaderboardManager THEN Append(scoreUpdates, saveCall.score)
                       ELSE scoreUpdates
    /\ saveCall' = [saveCall EXCEPT !.pc = "done", !.statsUpdated = TRUE,
                                    !.leaderboardCalled = leaderboardManager]
    /\ savedScores' = Append(savedScores, saveCall.score)
    /\ UNCHANGED << quizVars, loadVars, scoringVars, boardVars, cacheVars, streakVars,
                    outageVars, retryVars, authVars, sessionRow >>

\* Final scores of the sessions saved.
SaveScores == {0, 30, 80}

SaveNext ==
    \/ /\ saveCall.pc \in {"idle", "done"}
       /\ \E finalScore \in SaveScores, signedIn \in BOOLEAN, hasSession \in BOOLEAN :
              SaveQuizResults(finalScore, signedIn, hasSession)
    \/ SessionCompleted
    \/ \E found \in BOOLEAN : ProfileRead(found)
    \/ \E leaderboardManager \in BOOLEAN : ProfileUpdated(leaderboardManager)

\* With or without a backend; the store may refuse the session update.
SaveInit ==
    /\ constructed
    /\ managersLoaded
    /\ leaderboardData = placeholderLeaderboard
    /\ storeHealth \in [answers : {"ok"}, sessions : StoreAnswers]
    /\ budget = [starts |-> 0, clicks |-> 0, ticks |-> 0]

SaveSpec == SaveInit /\ [][SaveNext]_vars

\* ------------------------------------------------------ retries of a request
\* 2 to the power n.
RECURSIVE pow2(_)
pow2(n) == IF n = 0 THEN 1 ELSE 2 * pow2(n - 1)

\* ErrorHandler.shouldRetry for an error with this status (0: the error has
\* none) and this count of the operation key.
shouldRetry(status, attempts) ==
    ~(status >= 400 /\ status < 500) /\ attempts < MaxRetries

\* The caller hands a failure of the operation to handleApiError with a
\* retry function and the operation key: either retryOperation counts the
\* attempt and waits, or the user is told and the call rejects.
HandleApiError(status) ==
    /\ retryCall.pc \in {"idle", "failed", "rejected"}
    /\ handled < MaxHandled
    /\ handled' = handled + 1
    /\ IF shouldRetry(status, retryAttempts)
       THEN /\ retryAttempts' = retryAttempts + 1
            /\ retryDelays' = Append(retryDelays, pow2(retryAttempts) * BaseDelay)
            /\ retryCall' = [pc |-> "waiting", attempts |-> retryAttempts]
            /\ reported' = FALSE
       ELSE /\ reported' = TRUE
            /\ retryCall' = [pc |-> "rejected", attempts |-> retryAttempts]
            /\ UNCHANGED << retryAttempts, retryDelays >>
    /\ UNCHANGED << quizVars, loadVars, scoringVars, boardVars, cacheVars, streakVars,
                    outageVars, saveVars, authVars >>

\* The delay of retryOperation is over and the operation runs again: on
\* success the count is cleared; on failure the count is cleared when this
\* was the last allowed retry, and the error is thrown to the caller.
RetryRuns(succeeds) ==
    /\ retryCall.pc = "waiting"
    /\ IF succeeds
       THEN /\ retryAttempts' = 0
            /\ retryDelays' = << >>
            /\ retryCall' = [retryCall EXCEPT !.pc = "idle"]
       ELSE /\ retryAttempts' = IF retryCall.attempts >= MaxRetries - 1
                                THEN 0 ELSE retryAttempts
            /\ retryCall' = [retryCall EXCEPT !.pc = "failed"]
            /\ UNCHANGED retryDelays
    /\ UNCHANGED << quizVars, loadVars, scoringVars, boardVars, cacheVars, streakVars,
                    outageVars, saveVars, authVars, reported, handled >>

\* Statuses of the errors handed over: none (a network error), server
\* errors, client errors.
ErrorStatuses == {0, 404, 429, 500, 503}

RetryNext ==
    \/ /\ retryCall.pc \in {"idle", "failed", "rejected"}
       /\ \E status \in ErrorStatuses : HandleApiError(status)
    \/ \E succeeds \in BOOLEAN : RetryRuns(succeeds)

RetryInit ==
    /\ constructed
    /\ managersLoaded
    /\ storeHealth = healthyStore
    /\ leaderboardData = placeholderLeaderboard
    /\ budget = [starts |-> 0, clicks |-> 0, ticks |-> 0]

RetrySpec == RetryInit /\ [][RetryNext]_vars

\* --------------------------------------------------- register and login
\* Inputs of the forms, described by what the checks of the code read of
\* them: the length, whether each regular expression matches, membership of
\* the word lists, and the number JavaScript converts the string to.
aliceEmail ==
    [name |-> "alice@example.com", length |-> 17, strictFormat |-> TRUE,
     looseFormat |-> TRUE, suspicious |-> FALSE, numeric |-> FALSE, number |-> 0]
bobEmail ==
    [name |-> "bob@example.com", length |-> 15, strictFormat |-> TRUE,
     looseFormat |-> TRUE, suspicious |-> FALSE, numeric |-> FALSE, number |-> 0]
emptyEmail ==
    [name |-> "", length |-> 0, strictFormat |-> FALSE, looseFormat |-> FALSE,
     suspicious |-> FALSE, numeric |-> TRUE, number |-> 0]
EmailSamples ==
    { aliceEmail, bobEmail, emptyEmail,
      [name |-> "alice", length |-> 5, strictFormat |-> FALSE, looseFormat |-> FALSE,
       suspicious |-> FALSE, numeric |-> FALSE, number |-> 0],
      [name |-> "alice@localhost", length |-> 15, strictFormat |-> TRUE,
       looseFormat |-> FALSE, suspicious |-> FALSE, numeric |-> FALSE, number |-> 0],
      [name |-> "a%41@example.com", length |-> 16, strictFormat |-> TRUE,
       looseFormat |-> TRUE, suspicious |-> TRUE, numeric |-> FALSE, number |-> 0],
      [name |-> "long@example.com", length |-> 255, strictFormat |-> TRUE,
       looseFormat |-> TRUE, suspicious |-> FALSE, numeric |-> FALSE, number |-> 0] }

emptyUsername ==
    [name |-> "", length |-> 0, wordChars |-> FALSE, reserved |-> FALSE,
     suspicious |-> FALSE]
UsernameSamples ==
    { [name |-> "player_1", length |-> 8, wordChars |-> TRUE, reserved |-> FALSE,
       suspicious |-> FALSE],
      emptyUsername,
      [name |-> "ab", length |-> 2, wordChars |-> TRUE, reserved |-> FALSE,
       suspicious |-> FALSE],
      [name |-> "a_very_long_username_", length |-> 21, wordChars |-> TRUE,
       reserved |-> FALSE, suspicious |-> FALSE],
      [name |-> "<b>", length |-> 3, wordChars |-> FALSE, reserved |-> FALSE,
       suspicious |-> TRUE],
      [name |-> "Admin", length |-> 5, wordChars |-> TRUE, reserved |-> TRUE,
       suspicious |-> FALSE] }

strongPassword ==
    [name |-> "Abcdef1!", length |-> 8, hasLowercase |-> TRUE, hasUppercase |-> TRUE,
     hasNumbers |-> TRUE, hasSpecialChars |-> TRUE, weak |-> FALSE]
emptyPassword ==
    [name |-> "", length |-> 0, hasLowercase |-> FALSE, hasUppercase |-> FALSE,
     hasNumbers |-> FALSE, hasSpecialChars |-> FALSE, weak |-> FALSE]
PasswordSamples ==
    { strongPassword,
      emptyPassword,
      [name |-> "abc", length |-> 3, hasLowercase |-> TRUE, hasUppercase |-> FALSE,
       hasNumbers |-> FALSE, hasSpecialChars |-> FALSE, weak |-> FALSE],
      [name |-> "Abcdefg1", length |-> 8, hasLowercase |-> TRUE, hasUppercase |-> TRUE,
       hasNumbers |-> TRUE, hasSpecialChars |-> FALSE, weak |-> FALSE],
      [name |-> "password", length |-> 8, hasLowercase |-> TRUE, hasUppercase |-> FALSE,
       hasNumbers |-> FALSE, hasSpecialChars |-> FALSE, weak |-> TRUE] }

\* A one-element list when the condition holds, the empty list otherwise.
errorIf(condition, message) == IF condition THEN << message >> ELSE << >>

\* SecurityManager.validateEmail: the first failing check is the only error.
validateEmail(email) ==
    LET errors == IF ~email.strictFormat
                  THEN << "Please enter a valid email address" >>
                  ELSE IF email.length > MaxEmailLength
                       THEN << "Email address is too long" >>
                       ELSE IF email.suspicious
                            THEN << "Email contains invalid characters" >>
                            ELSE << >>
    IN  [isValid |-> errors = << >>, errors |-> errors]

\* SecurityManager.validateUsername: every failing check adds an error.
validateUsername(username) ==
    LET errors ==
            errorIf(username.length < MinUsernameLength,
                    "Username must be at least 3 characters long")
            \o errorIf(username.length > MaxUsernameLength,
                       "Username must be less than 20 characters long")
            \o errorIf(~username.wordChars,
                       "Username can only contain letters, numbers, and underscores")
            \o errorIf(username.reserved, "This username is not allowed")
            \o errorIf(username.suspicious, "Username contains invalid patterns")
    IN  [isValid |-> errors = << >>, errors |-> errors]

\* SecurityManager.validatePassword: every failing check adds an error.
validatePassword(password) ==
    LET errors ==
            errorIf(password.length < PasswordMinLength,
                    "Password must be at least 8 characters long")
            \o errorIf(~password.hasLowercase, "Password must contain lowercase letters")
            \o errorIf(~password.hasUppercase, "Password must contain uppercase letters")
            \o errorIf(~password.hasNumbers, "Password must contain numbers")
            \o errorIf(~password.hasSpecialChars,
                       "Password must contain special characters")
            \o errorIf(password.weak, "This password is too common and weak")
    IN  [isValid |-> errors = << >>, errors |-> errors]

\* SecurityManager.validateInput for the three types the forms use; an
\* empty input is refused before the type is looked at.
validateInput(input, type) ==
    IF input.length = 0
    THEN [isValid |-> FALSE, errors |-> << "Input is required" >>]
    ELSE CASE type = "email" -> validateEmail(input)
           [] type = "username" -> validateUsername(input)
           [] type = "password" -> validatePassword(input)

\* Utils.isValidEmail, the check used when there is no security manager.
isValidEmail(email) == email.looseFormat

\* Utils.validatePassword counts the rules the password meets, and
\* AuthManager.isValidPassword asks for three of the five.
isValidPassword(password) ==
    LET point(met) == IF met THEN 1 ELSE 0
        passwordScore == point(password.length >= PasswordMinLength)
                         + point(password.hasLowercase) + point(password.hasUppercase)
                         + point(password.hasNumbers) + point(password.hasSpecialChars)
    IN  passwordScore >= GoodPasswordScore

\* An error thrown inside register or login: its text, its code, and the
\* words getErrorMessage looks for in the lower-cased text.
thrownError(message) ==
    [message |-> message, code |-> "none",
     mentions |-> IF message \in { "Email and password are required",
                                   "Password must be at least 8 characters long",
                                   "Password must contain lowercase letters",
                                   "Password must contain uppercase letters",
                                   "Password must contain numbers",
                                   "Password must contain special characters",
                                   "This password is too common and weak",
                                   "Password must be at least 8 characters long and contain uppercase, lowercase, and numbers" }
                  THEN {"password"} ELSE {}]

\* What the sign-up and sign-in calls of the backend can answer with.
noError == [message |-> "", code |-> "none", mentions |-> {}]
wrongPassword ==
    [message |-> "Invalid login credentials", code |-> "invalid_credentials",
     mentions |-> {"invalid login credentials"}]
unknownAccount ==
    [message |-> "User not found", code |-> "user_not_found", mentions |-> {}]
BackendErrors ==
    { wrongPassword, unknownAccount,
      [message |-> "Email not confirmed", code |-> "email_not_confirmed",
       mentions |-> {}],
      [message |-> "User already registered", code |-> "user_already_exists",
       mentions |-> {"user already registered"}],
      [message |-> "Failed to fetch", code |-> "none", mentions |-> {"fetch"}],
      [message |-> "Database error saving new user", code |-> "unexpected_failure",
       mentions |-> {}] }

\* The table of handleAuthError.
authErrorMap ==
    [key \in { "invalid_credentials", "email_not_confirmed", "too_many_requests",
               "user_not_found", "email_address_invalid", "password_too_short",
               "signup_disabled", "email_address_not_authorized" } |->
        CASE key = "invalid_credentials" ->
                 "Invalid email or password. Please check your credentials and try again."
          [] key = "email_not_confirmed" ->
                 "Please check your email and click the confirmation link before signing in."
          [] key = "too_many_requests" ->
                 "Too many login attempts. Please wait a few minutes before trying again."
          [] key = "user_not_found" -> "No account found with this email address."
          [] key = "email_address_invalid" -> "Please enter a valid email address."
          [] key = "password_too_short" -> "Password must be at least 8 characters long."
          [] key = "signup_disabled" -> "New registrations are currently disabled."
          [] key = "email_address_not_authorized" ->
                 "This email address is not authorized to access the application."]

\* ErrorHandler.handleAuthError: the entry for the error's text, else the
\* entry for its code, else one general message.
handleAuthError(error) ==
    IF error.message \in DOMAIN authErrorMap
    THEN authErrorMap[error.message]
    ELSE IF error.code \in DOMAIN authErrorMap
         THEN authErrorMap[error.code]
         ELSE "Authentication failed. Please try again."

\* AuthManager.getErrorMessage, used when there is no error handler.
getErrorMessage(error) ==
    IF error.message = ""
    THEN "An unexpected error occurred"
    ELSE IF "invalid login credentials" \in error.mentions
         THEN "Invalid email or password"
         ELSE IF "user already registered" \in error.mentions
              THEN "An account with this email already exists"
              ELSE IF "password" \in error.mentions
                   THEN "Password must be at least 8 characters long"
                   ELSE IF error.mentions \cap {"network", "fetch"} # {}
                        THEN "Network error. Please check your connection"
                        ELSE error.message

\* The message of the failure result.
errorMessage(error) ==
    IF errorHandler THEN handleAuthError(error) ELSE getErrorMessage(error)

\* SecurityManager.checkRateLimit(key, limit, window) at time now. The limit
\* is whatever the caller passes: the comparison converts it to a number
\* and is false when it is not one.
checkRateLimit(limits, now, key, limit, window) ==
    LET requests == IF key \in DOMAIN limits THEN limits[key] ELSE << >>
        validRequests == SelectSeq(requests, LAMBDA time : now - time < window)
    IN  IF limit.numeric /\ Len(validRequests) >= limit.number
        THEN [allowed |-> FALSE, rateLimits |-> limits]
        ELSE [allowed |-> TRUE,
              rateLimits |-> [k \in DOMAIN limits \cup {key} |->
                                 IF k = key THEN Append(validRequests, now)
                                 ELSE limits[k]]]

\* The failure result of a call that validated only after its request.
failedAfterRequest(op, inputs, error, refused) ==
    [op |-> op, pc |-> "done", email |-> inputs[1], username |-> inputs[2],
     password |-> inputs[3], networkCalled |-> TRUE, refused |-> refused,
     success |-> FALSE, error |-> error.message, message |-> errorMessage(error)]

\* The call ends with a failure result made from the error caught.
failedCall(op, inputs, error, refused) ==
    [op |-> op, pc |-> "done", email |-> inputs[1], username |-> inputs[2],
     password |-> inputs[3], networkCalled |-> FALSE, refused |-> refused,
     success |-> FALSE, error |-> error.message, message |-> errorMessage(error)]

\* The call has passed its checks and waits for the backend's answer.
awaitingCall(op, inputs) ==
    [op |-> op, pc |-> "awaiting", email |-> inputs[1], username |-> inputs[2],
     password |-> inputs[3], networkCalled |-> TRUE, refused |-> FALSE,
     success |-> FALSE, error |-> "none", message |-> ""]

\* Reading auth of a client that was never created throws.
clientMissing == thrownError("Cannot read properties of null (reading 'auth')")

\* AuthManager.register up to its await of signUp: the three inputs are
\* validated by the security manager when there is one, by the fallback
\* checks otherwise, and the first error is thrown.
Register(email, password, username) ==
    /\ authCall.pc # "awaiting"
    /\ LET emailValidation == validateInput(email, "email")
           usernameValidation == validateInput(username, "username")
           passwordValidation == validateInput(password, "password")
           thrown ==
               IF securityManager
               THEN IF ~emailValidation.isValid THEN emailValidation.errors[1]
                    ELSE IF ~usernameValidation.isValid
                         THEN usernameValidation.errors[1]
                         ELSE IF ~passwordValidation.isValid
                              THEN passwordValidation.errors[1]
                              ELSE "none"
               ELSE IF ~isValidEmail(email)
                    THEN "Please enter a valid email address"
                    ELSE IF ~isValidPassword(password)
                         THEN "Password must be at least 8 characters long and contain uppercase, lowercase, and numbers"
                         ELSE IF username.length < MinUsernameLength
                              THEN "Username must be at least 3 characters long"
                              ELSE "none"
       IN  authCall' =
               IF thrown # "none"
               THEN failedCall("register", << email.name, username.name, password.name >>,
                               thrownError(thrown), FALSE)
               ELSE IF ~backend
                    THEN failedCall("register",
                                    << email.name, username.name, password.name >>,
                                    clientMissing, FALSE)
                    ELSE awaitingCall("register",
                                      << email.name, username.name, password.name >>)
    /\ UNCHANGED << quizVars, loadVars, scoringVars, boardVars, cacheVars, streakVars,
                    outageVars, saveVars, retryVars, rateLimits, loginAttempts,
                    loginClock, securityManager, errorHandler >>

\* AuthManager.login up to its await of signInWithPassword: the rate limit
\* is asked first, with the arguments as login passes them, then both
\* inputs must be present and the e-mail well formed.
Login(email, password) ==
    /\ authCall.pc # "awaiting"
    /\ Len(loginAttempts) < MaxLogins
    /\ LET rateLimit == IF securityManager
                        THEN checkRateLimit(rateLimits, loginClock, "login", email,
                                            LoginWindow)
                        ELSE [allowed |-> TRUE, rateLimits |-> rateLimits]
           emailValidation == validateInput(email, "email")
           thrown ==
               IF ~rateLimit.allowed
               THEN "Too many login attempts. Please wait a moment and try again."
               ELSE IF email.length = 0 \/ password.length = 0
                    THEN "Email and password are required"
                    ELSE IF securityManager
                         THEN IF ~emailValidation.isValid
                              THEN emailValidation.errors[1] ELSE "none"
                         ELSE IF ~isValidEmail(email)
                              THEN "Please enter a valid email address" ELSE "none"
       IN  /\ rateLimits' = rateLimit.rateLimits
           /\ authCall' =
                  IF thrown # "none"
                  THEN failedCall("login", << email.name, "", password.name >>,
                                  thrownError(thrown), ~rateLimit.allowed)
                  ELSE IF ~backend
                       THEN failedCall("login", << email.name, "", password.name >>,
                                       clientMissing, FALSE)
                       ELSE awaitingCall("login", << email.name, "", password.name >>)
    /\ loginAttempts' = Append(loginAttempts, [email |-> email.name, time |-> loginClock])
    /\ UNCHANGED << quizVars, loadVars, scoringVars, boardVars, cacheVars, streakVars,
                    outageVars, saveVars, retryVars, loginClock, securityManager,
                    errorHandler >>

\* The backend answers the sign-up or sign-in call: with a user, or with an
\* error that the catch turns into the failure result.
BackendAnswers(error) ==
    /\ authCall.pc = "awaiting"
    /\ authCall' = [authCall EXCEPT
                        !.pc = "done",
                        !.success = (error = noError),
                        !.error = IF error = noError THEN "none" ELSE error.message,
                        !.message = IF error = noError THEN ""
                                    ELSE errorMessage(error)]
    /\ UNCHANGED << quizVars, loadVars, scoringVars, boardVars, cacheVars, streakVars,
                    outageVars, saveVars, retryVars, rateLimits, loginAttempts,
                    loginClock, securityManager, errorHandler >>

\* Time passes between two calls.
LoginClockAdvances(later) ==
    /\ later > loginClock
    /\ loginClock' = later
    /\ UNCHANGED << quizVars, loadVars, scoringVars, boardVars, cacheVars, streakVars,
                    outageVars, saveVars, retryVars, rateLimits, authCall,
                    loginAttempts, securityManager, errorHandler >>

\* The cleaning SecurityManager.monitorRateLimit runs every five minutes.
MonitorRateLimit ==
    /\ loginClock >= CleanEvery
    /\ rateLimits' =
           LET kept(key) == SelectSeq(rateLimits[key],
                                      LAMBDA time : loginClock - time < CleanEvery)
           IN  [key \in {k \in DOMAIN rateLimits : kept(k) # << >>} |-> kept(key)]
    /\ UNCHANGED << quizVars, loadVars, scoringVars, boardVars, cacheVars, streakVars,
                    outageVars, saveVars, retryVars, authCall, loginAttempts,
                    loginClock, securityManager, errorHandler >>

\* Register and login with every sample input, one call after the other.
AuthNext ==
    \/ /\ authCall.pc # "awaiting"
       /\ \E email \in EmailSamples, password \in PasswordSamples,
             username \in UsernameSamples :
              Register(email, password, username)
    \/ /\ authCall.pc # "awaiting"
       /\ Len(loginAttempts) < MaxAuthLogins
       /\ \E email \in EmailSamples, password \in PasswordSamples :
              Login(email, password)
    \/ /\ authCall.pc = "awaiting"
       /\ \E error \in BackendErrors \cup {noError} : BackendAnswers(error)

AuthInit ==
    /\ constructed
    /\ securityManager \in BOOLEAN
    /\ errorHandler \in BOOLEAN
    /\ storeHealth = healthyStore
    /\ leaderboardData = placeholderLeaderboard
    /\ budget = [starts |-> 0, clicks |-> 0, ticks |-> 0]

AuthSpec == AuthInit /\ [][AuthNext]_vars

\* Repeated logins of two users with the application as shipped: the
\* security manager and the error handler are there.
LoginTimes == {3, 300000, 300003}

RateNext ==
    \/ /\ authCall.pc # "awaiting"
       /\ Len(loginAttempts) < MaxLogins
       /\ \E email \in {aliceEmail, bobEmail} : Login(email, strongPassword)
    \/ /\ authCall.pc = "awaiting"
       /\ \E error \in {noError, wrongPassword} : BackendAnswers(error)
    \/ \E later \in LoginTimes : LoginClockAdvances(later)
    \/ MonitorRateLimit

RateInit ==
    /\ constructed
    /\ managersLoaded
    /\ backend = TRUE
    /\ storeHealth = healthyStore
    /\ leaderboardData = placeholderLeaderboard
    /\ budget = [starts |-> 0, clicks |-> 0, ticks |-> 0]

RateSpec == RateInit /\ [][RateNext]_vars

\* ------------------------------------------------- question loading alone
LoadCategories == {"all", "", "Geography", "geography", "Art", "Science", "Mythology"}
LoadDifficulties == {"all", "", "easy", "medium", "hard", "Medium"}

\* One call of loadQuestions on a fresh manager.
LoadQuestions(count, category, difficulty) ==
    /\ ~loadRequest.made
    /\ loadRequest' = [made |-> TRUE, count |-> count, category |-> category,
                       difficulty |-> difficulty]
    /\ loadResult' \in loadQuestions(backend, count, category, difficulty)
    /\ UNCHANGED << quizVars, otherVars >>

LoadNext ==
    \E n \in 0..MaxLoadCount, category \in LoadCategories,
       difficulty \in LoadDifficulties :
        LoadQuestions(n, category, difficulty)

LoadInit ==
    /\ constructed
    /\ managersLoaded
    /\ storeHealth = healthyStore
    /\ leaderboardData = placeholderLeaderboard
    /\ budget = [starts |-> 0, clicks |-> 0, ticks |-> 0]

LoadSpec == LoadInit /\ [][LoadNext]_vars

\* ------------------------------------------------------ scoring engine alone
\* Questions handed to the scoring engine: every difficulty string, with a
\* point value of their own (one of them negative, which the points_value
\* column allows) or without one (0).
ScoredDifficulties == {"easy", "medium", "hard", "expert", ""}
ScoredQuestions ==
    {[id |-> "q", category |-> "Science", difficulty |-> d, points |-> p] :
        d \in ScoredDifficulties,
        p \in {0 - EasyPoints, 0, EasyPoints, MediumPoints, HardPoints}}

\* No call has been made yet.
scoringIdle == ~answerCall.made /\ ~totalCall.made

\* One call of calculateAnswerPoints, on a question as it is ("direct") or
\* as loadQuestionsFromDatabase hands it on ("store").
CalculateAnswerPoints(origin, question, isCorrect, timeSpent, consecutiveCorrect) ==
    /\ scoringIdle
    /\ answerCall' = [made |-> TRUE, origin |-> origin, question |-> question,
                      isCorrect |-> isCorrect, timeSpent |-> timeSpent,
                      consecutiveCorrect |-> consecutiveCorrect]
    /\ answerResult' =
           calculateAnswerPoints(IF origin = "store" THEN transformQuestion(question)
                                 ELSE question,
                                 isCorrect, timeSpent, consecutiveCorrect)
    /\ UNCHANGED << quizVars, loadVars, totalCall, totalResult, boardVars, cacheVars, laterVars >>

\* Answer records as submitAnswer stores them: a medium question answered
\* right after 20 s, and a hard one answered wrong after 70 s.
rightAnswer ==
    LET q == [id |-> "q", category |-> "Science", difficulty |-> "medium", points |-> 0]
    IN  answerRecordOf(q, calculateAnswerPoints(q, TRUE, 20, 0))
wrongAnswer ==
    LET q == [id |-> "q", category |-> "Science", difficulty |-> "hard", points |-> 0]
    IN  answerRecordOf(q, calculateAnswerPoints(q, FALSE, 70, 0))

RECURSIVE AnswerLists(_)
AnswerLists(n) ==
    IF n = 0 THEN {<< >>}
    ELSE LET shorter == AnswerLists(n - 1)
         IN  shorter \cup {Append(l, a) : l \in {x \in shorter : Len(x) = n - 1},
                                          a \in {rightAnswer, wrongAnswer}}

\* The quiz information calculateResults passes: the category of the quiz,
\* the seconds elapsed and the time limit.
QuizInfos ==
    {[category |-> c, timeSpent |-> t, timeLimit |-> l] :
        c \in {"", "all", "Science"}, t \in {0, 120, 150, 200}, l \in {0, 300}}

\* One call of calculateTotalScore.
CalculateTotalScore(answers, quizInfo) ==
    /\ scoringIdle
    /\ totalCall' = [made |-> TRUE, answers |-> answers, quizInfo |-> quizInfo]
    /\ totalResult' = calculateTotalScore(answers, quizInfo)
    /\ UNCHANGED << quizVars, loadVars, answerCall, answerResult, boardVars, cacheVars, laterVars >>

ScoreNext ==
    \/ /\ scoringIdle
       /\ \E origin \in {"direct", "store"}, question \in ScoredQuestions,
             isCorrect \in BOOLEAN, timeSpent \in 0..MaxTimeSpent,
             consecutiveCorrect \in 0..MaxConsecutive :
              CalculateAnswerPoints(origin, question, isCorrect, timeSpent,
                                    consecutiveCorrect)
    \/ /\ scoringIdle
       /\ \E answers \in AnswerLists(MaxAnswers), quizInfo \in QuizInfos :
              CalculateTotalScore(answers, quizInfo)

ScoreInit ==
    /\ constructed
    /\ managersLoaded
    /\ storeHealth = healthyStore
    /\ leaderboardData = placeholderLeaderboard
    /\ budget = [starts |-> 0, clicks |-> 0, ticks |-> 0]

ScoreSpec == ScoreInit /\ [][ScoreNext]_vars

\* ------------------------------------------------- leaderboard, no backend
\* Subscriber callbacks: one that only reads the list, and one that calls
\* its own unsubscribe function when it is invoked.
Callbacks == {"listener", "oneShot"}
SelfRemoving == {"oneShot"}

\* splice(indexOf(callback), 1) when the callback is in the list.
withoutCallback(list, callback) ==
    LET at == {i \in 1..Len(list) : list[i] = callback}
    IN  IF at = {} THEN list
        ELSE LET first == CHOOSE i \in at : \A j \in at : i <= j
             IN  SubSeq(list, 1, first - 1) \o SubSeq(list, first + 1, Len(list))

\* this.subscribers.forEach(callback => callback(...)): positions k..length
\* of the array as it is when each is reached; a position the array no
\* longer has is passed over.
RECURSIVE forEachSubscriber(_, _, _, _)
forEachSubscriber(list, k, length, invoked) ==
    IF k > length THEN [subscribers |-> list, invoked |-> invoked]
    ELSE IF k > Len(list) THEN forEachSubscriber(list, k + 1, length, invoked)
    ELSE forEachSubscriber(IF list[k] \in SelfRemoving
                           THEN withoutCallback(list, list[k]) ELSE list,
                           k + 1, length, Append(invoked, list[k]))

\* LeaderboardManager.notifySubscribers, the list passed being data.
notifySubscribers(data) ==
    LET run == forEachSubscriber(subscribers, 1, Len(subscribers), << >>)
    IN  /\ subscribers' = run.subscribers
        /\ unsubscribed' = unsubscribed \cup
               {run.invoked[i] : i \in {j \in 1..Len(run.invoked) :
                                           run.invoked[j] \in SelfRemoving}}
        /\ lastNotification' = [made |-> TRUE, subscribedAtStart |-> subscribers,
                                unsubscribedAtStart |-> unsubscribed,
                                invoked |-> run.invoked, data |-> data]

\* updateUserScore up to the timeout of getTopUsersFromPlaceholder, which
\* refreshLeaderboard waits for.
UpdateUserScore(userId, newScore) ==
    /\ ~backend
    /\ boardOps < MaxBoardOps
    /\ boardOps' = boardOps + 1
    /\ leaderboardData' = updatePlaceholderUserScore(leaderboardData, userId, newScore)
    /\ boardTimers' = Append(boardTimers, [kind |-> "refresh", limit |-> RefreshLimit])
    /\ lastBoardOp' = "updating"
    /\ UNCHANGED << quizVars, loadVars, scoringVars, laterVars, cacheVars, subscribers, lastTopUsers,
                    lastNotification, unsubscribed >>

\* The timeout fires for an updateUserScore: the top entries of the sorted,
\* ranked copy become the list, and the subscribers are notified.
UpdateRefreshed ==
    /\ boardTimers # << >>
    /\ Head(boardTimers).kind = "refresh"
    /\ boardTimers' = Tail(boardTimers)
    /\ LET users == topSlice(rankedCopy(leaderboardData), Head(boardTimers).limit)
       IN  /\ leaderboardData' = users
           /\ notifySubscribers(users)
    /\ lastBoardOp' = "updated"
    /\ UNCHANGED << quizVars, loadVars, scoringVars, laterVars, cacheVars, lastTopUsers, boardOps >>

\* getTopUsers up to the timeout of getTopUsersFromPlaceholder.
GetTopUsers(limit) ==
    /\ ~backend
    /\ boardOps < MaxBoardOps
    /\ boardOps' = boardOps + 1
    /\ boardTimers' = Append(boardTimers, [kind |-> "top", limit |-> limit])
    /\ UNCHANGED << quizVars, loadVars, scoringVars, laterVars, cacheVars, leaderboardData, subscribers,
                    lastTopUsers, lastNotification, unsubscribed, lastBoardOp >>

\* The timeout fires for a getTopUsers: the entries get the ranks of the
\* sorted copy, whose first entries are returned.
TopUsersReturned ==
    /\ boardTimers # << >>
    /\ Head(boardTimers).kind = "top"
    /\ boardTimers' = Tail(boardTimers)
    /\ LET ranked == rankedCopy(leaderboardData)
       IN  /\ leaderboardData' = withRanksOf(leaderboardData, ranked)
           /\ lastTopUsers' = [made |-> TRUE,
                               users |-> topSlice(ranked, Head(boardTimers).limit),
                               total |-> Len(ranked)]
    /\ lastBoardOp' = "top"
    /\ UNCHANGED << quizVars, loadVars, scoringVars, laterVars, cacheVars, subscribers, lastNotification,
                    unsubscribed, boardOps >>

\* The score changes of simulateLeaderboardChanges, one entry at a time.
RECURSIVE withSimulatedChanges(_, _)
withSimulatedChanges(list, picks) ==
    IF picks = << >> THEN list
    ELSE withSimulatedChanges(
             [list EXCEPT ![Head(picks).index] =
                 [@ EXCEPT !.totalPoints = @ + Head(picks).scoreChange,
                           !.quizzesCompleted = @ + 1]],
             Tail(picks))

\* The random choices of one simulateLeaderboardChanges run on a list of
\* this length: which entry gets how many points, the smallest and the
\* largest change being tried.
SimulatedPicks(length) ==
    LET Pick == [index : 1..length, scoreChange : {SimulatedMin, SimulatedMax}]
    IN  UNION {[1..n -> Pick] : n \in 1..MaxSimulatedUsers}

\* LeaderboardManager.simulateLeaderboardChanges.
SimulateLeaderboardChanges(picks) ==
    /\ boardOps < MaxBoardOps
    /\ boardOps' = boardOps + 1
    /\ leaderboardData # << >>
    /\ LET changed == resort(withSimulatedChanges(leaderboardData, picks))
       IN  /\ leaderboardData' = changed
           /\ notifySubscribers(changed)
    /\ lastBoardOp' = "simulated"
    /\ UNCHANGED << quizVars, loadVars, scoringVars, laterVars, cacheVars, boardTimers, lastTopUsers >>

\* LeaderboardManager.subscribeToUpdates with a callback that is not
\* subscribed; with a backend the channel of pushed changes is opened too.
SubscribeToUpdates(callback) ==
    /\ \A i \in 1..Len(subscribers) : subscribers[i] # callback
    /\ subscribers' = Append(subscribers, callback)
    /\ unsubscribed' = unsubscribed \ {callback}
    /\ lastBoardOp' = "subscribed"
    /\ UNCHANGED << quizVars, loadVars, scoringVars, laterVars, cacheVars, leaderboardData, boardTimers,
                    lastTopUsers, lastNotification, boardOps >>

\* The function subscribeToUpdates returned for this callback is called.
Unsubscribe(callback) ==
    /\ \E i \in 1..Len(subscribers) : subscribers[i] = callback
    /\ subscribers' = withoutCallback(subscribers, callback)
    /\ unsubscribed' = unsubscribed \cup {callback}
    /\ lastBoardOp' = "unsubscribed"
    /\ UNCHANGED << quizVars, loadVars, scoringVars, laterVars, cacheVars, leaderboardData, boardTimers,
                    lastTopUsers, lastNotification, boardOps >>

\* Users whose score is updated, the last one unknown to both lists, and
\* the scores added.
BoardUsers == {"2", "3", "u-7f3a"}
BoardScores == {0, 60, 570}
BoardLimits == {2, 10}

BoardNext ==
    \/ \E userId \in BoardUsers, newScore \in BoardScores :
           UpdateUserScore(userId, newScore)
    \/ UpdateRefreshed
    \/ \E limit \in BoardLimits : GetTopUsers(limit)
    \/ TopUsersReturned
    \/ /\ boardOps < MaxBoardOps
       /\ \E picks \in SimulatedPicks(Len(leaderboardData)) :
              SimulateLeaderboardChanges(picks)
    \/ \E callback \in Callbacks : SubscribeToUpdates(callback)
    \/ \E callback \in Callbacks : Unsubscribe(callback)

\* The manager without a backend, its list being the placeholder list or
\* the three-user list.
BoardInit ==
    /\ constructed
    /\ managersLoaded
    /\ storeHealth = healthyStore
    /\ backend = FALSE
    /\ budget = [starts |-> 0, clicks |-> 0, ticks |-> 0]
    /\ leaderboardData \in {placeholderLeaderboard, threeUserLeaderboard}

BoardSpec == BoardInit /\ [][BoardNext]_vars

\* --------------------------------------------------- leaderboard, backend
\* category || 'all', the empty string standing for no category.
requestedCategory(category) == IF category = "" THEN "all" ELSE category

\* A cache key that leaves the limit out.
cacheKeyOfCategory(category, limit) ==
    << "leaderboard", requestedCategory(category), 0 >>

\* `leaderboard_${category || 'all'}_${limit}`.
cacheKey(category, limit) == << "leaderboard", requestedCategory(category), limit >>

\* The rows of the store's leaderboard views in rank order: the global view,
\* or the view of a category; the leader's points grow with every change.
storeRows(category, version) ==
    IF category # "" /\ category # "all"
    THEN << [id |-> "2", totalPoints |-> 40 + 10 * version, quizzesCompleted |-> 2, rank |-> 1],
            [id |-> "1", totalPoints |-> 30, quizzesCompleted |-> 1, rank |-> 2],
            [id |-> "3", totalPoints |-> 10, quizzesCompleted |-> 1, rank |-> 3] >>
    ELSE << [id |-> "1", totalPoints |-> 100 + 10 * version, quizzesCompleted |-> 3, rank |-> 1],
            [id |-> "2", totalPoints |-> 100, quizzesCompleted |-> 4, rank |-> 2],
            [id |-> "3", totalPoints |-> 50, quizzesCompleted |-> 2, rank |-> 3] >>

\* What getTopUsersFromDatabase makes of the store's answer.
databaseResult(category, limit, version) ==
    LET users == topSlice(storeRows(category, version), limit)
    IN  [users |-> users, total |-> Len(users), category |-> requestedCategory(category)]

\* PerformanceManager.getCache finds an entry that has not expired.
cacheHit(key) == key \in DOMAIN cache /\ ~(clock > cache[key].expiry)

\* The cache without the entries of these keys.
cacheWithout(keys) == [k \in DOMAIN cache \ keys |-> cache[k]]

\* PerformanceManager.setCache.
setCache(key, data, ttl) ==
    [k \in DOMAIN cache \cup {key} |->
        IF k = key THEN [data |-> data, expiry |-> clock + ttl] ELSE cache[k]]

\* The latest answer of the store to this request, if there is one.
fetchedFor(category, limit) ==
    LET request == << requestedCategory(category), limit >>
    IN  IF request \in DOMAIN fetched THEN fetched[request] ELSE noFetch

\* getTopUsers with a backend, up to the answer of the store: the cached
\* result is returned when the cache has one, otherwise the query is sent.
GetTopUsersFromDatabase(limit, category) ==
    /\ backend
    /\ cacheBudget.calls < MaxTopCalls
    /\ cacheBudget' = [cacheBudget EXCEPT !.calls = @ + 1]
    /\ LET key == cacheKey(category, limit)
           call == [made |-> TRUE, category |-> category, limit |-> limit,
                    at |-> clock, fetchedBefore |-> fetchedFor(category, limit)]
       IN  IF cacheHit(key)
           THEN /\ lastTopCall' = call @@ [served |-> "cache", result |-> cache[key].data]
                /\ UNCHANGED << cache, pendingQueries >>
           ELSE /\ lastTopCall' = call @@ [served |-> "store", result |-> noResult]
                /\ cache' = cacheWithout({key})
                /\ pendingQueries' = Append(pendingQueries,
                                            [category |-> category, limit |-> limit,
                                             refresh |-> FALSE])
    /\ UNCHANGED << quizVars, loadVars, scoringVars, laterVars, boardVars, clock, storeVersion,
                    fetched, lastRefresh >>

\* The sequence without its i-th element.
withoutIndex(list, i) == SubSeq(list, 1, i - 1) \o SubSeq(list, i + 1, Len(list))

\* The store answers a query: the rows become the list and the result is
\* cached for two minutes; a refresh then notifies the subscribers.
QueryAnswered(i) ==
    /\ i \in 1..Len(pendingQueries)
    /\ LET query == pendingQueries[i]
           result == databaseResult(query.category, query.limit, storeVersion)
       IN  /\ leaderboardData' = result.users
           /\ cache' = setCache(cacheKey(query.category, query.limit), result, CacheTtl)
           /\ fetched' = [request \in DOMAIN fetched \cup
                                       {<< requestedCategory(query.category), query.limit >>} |->
                             IF request = << requestedCategory(query.category), query.limit >>
                             THEN [known |-> TRUE, at |-> clock, result |-> result]
                             ELSE fetched[request]]
           /\ IF query.refresh
              THEN /\ notifySubscribers(result.users)
                   /\ lastBoardOp' = "updated"
                   /\ lastRefresh' = [made |-> TRUE, served |-> "store",
                                      storeRows |-> result.users,
                                      delivered |-> result.users]
              ELSE UNCHANGED << subscribers, lastNotification, unsubscribed, lastBoardOp,
                                lastRefresh >>
    /\ pendingQueries' = withoutIndex(pendingQueries, i)
    /\ UNCHANGED << quizVars, loadVars, scoringVars, laterVars, boardTimers,
                    lastTopUsers, boardOps, clock, storeVersion, lastTopCall, cacheBudget >>

\* The store answers a query with an error: getTopUsers falls back to the
\* placeholder list and its timeout.
QueryFailed(i) ==
    /\ i \in 1..Len(pendingQueries)
    /\ boardTimers' = Append(boardTimers,
                             [kind |-> IF pendingQueries[i].refresh THEN "refresh" ELSE "top",
                              limit |-> pendingQueries[i].limit])
    /\ pendingQueries' = withoutIndex(pendingQueries, i)
    /\ UNCHANGED << quizVars, loadVars, scoringVars, laterVars, leaderboardData, subscribers,
                    lastTopUsers, lastNotification, unsubscribed, lastBoardOp, boardOps,
                    clock, cache, storeVersion, fetched, lastTopCall, cacheBudget,
                    lastRefresh >>

\* Time passes.
AdvanceClock(ms) ==
    /\ cacheBudget.advances < MaxAdvances
    /\ cacheBudget' = [cacheBudget EXCEPT !.advances = @ + 1]
    /\ clock' = clock + ms
    /\ UNCHANGED << quizVars, loadVars, scoringVars, laterVars, boardVars, cache, pendingQueries,
                    storeVersion, fetched, lastTopCall, lastRefresh >>

\* A quiz result saved by any client changes the rows of the store's views.
StoreChanged ==
    /\ cacheBudget.changes < MaxStoreChanges
    /\ cacheBudget' = [cacheBudget EXCEPT !.changes = @ + 1]
    /\ storeVersion' = storeVersion + 1
    /\ UNCHANGED << quizVars, loadVars, scoringVars, laterVars, boardVars, clock, cache,
                    pendingQueries, fetched, lastTopCall, lastRefresh >>

\* PerformanceManager.clearExpiredCache, run every minute.
ClearExpiredCache ==
    /\ \E k \in DOMAIN cache : clock > cache[k].expiry
    /\ cache' = cacheWithout({k \in DOMAIN cache : clock > cache[k].expiry})
    /\ UNCHANGED << quizVars, loadVars, scoringVars, laterVars, boardVars, clock, pendingQueries,
                    storeVersion, fetched, lastTopCall, cacheBudget, lastRefresh >>

\* Categories asked for, the empty string standing for none, and the time
\* steps: a millisecond, a minute, two minutes.
BoardCategories == {"", "all", "Science"}
ClockSteps == {1, 60000, 120000}

CacheNext ==
    \/ /\ cacheBudget.calls < MaxTopCalls
       /\ \E limit \in BoardLimits, category \in BoardCategories :
              GetTopUsersFromDatabase(limit, category)
    \/ \E i \in 1..Len(pendingQueries) : QueryAnswered(i)
    \/ \E i \in 1..Len(pendingQueries) : QueryFailed(i)
    \/ TopUsersReturned
    \/ \E ms \in ClockSteps : AdvanceClock(ms)
    \/ StoreChanged
    \/ ClearExpiredCache

\* The manager with a backend.
CacheInit ==
    /\ constructed
    /\ managersLoaded
    /\ storeHealth = healthyStore
    /\ backend = TRUE
    /\ budget = [starts |-> 0, clicks |-> 0, ticks |-> 0]
    /\ leaderboardData = placeholderLeaderboard

CacheSpec == CacheInit /\ [][CacheNext]_vars


\* ------------------------------------------- refresh and notify, backend
\* updateUserScore with a backend, or handleRealtimeUpdate for a pushed
\* change: refreshLeaderboard asks getTopUsers for the first fifty of the
\* global list, which returns the cached result when the cache has one and
\* sends the query otherwise; with the cached result the list is replaced
\* and the subscribers are notified at once.
RefreshLeaderboard(trigger) ==
    /\ backend
    /\ boardOps < MaxBoardOps
    /\ boardOps' = boardOps + 1
    /\ LET key == cacheKey("", RefreshLimit)
       IN  IF cacheHit(key)
           THEN /\ leaderboardData' = cache[key].data.users
                /\ notifySubscribers(cache[key].data.users)
                /\ lastBoardOp' = "updated"
                /\ lastRefresh' =
                       [made |-> TRUE, served |-> "cache",
                        storeRows |-> databaseResult("", RefreshLimit, storeVersion).users,
                        delivered |-> cache[key].data.users]
                /\ UNCHANGED << cache, pendingQueries >>
           ELSE /\ cache' = cacheWithout({key})
                /\ pendingQueries' = Append(pendingQueries,
                                            [category |-> "", limit |-> RefreshLimit,
                                             refresh |-> TRUE])
                /\ lastBoardOp' = "updating"
                /\ UNCHANGED << leaderboardData, subscribers, lastNotification,
                                unsubscribed, lastRefresh >>
    /\ UNCHANGED << quizVars, loadVars, scoringVars, laterVars, boardTimers, lastTopUsers,
                    clock, storeVersion, fetched, lastTopCall, cacheBudget >>

\* What sets a refresh off.
RefreshTriggers == {"updateUserScore", "handleRealtimeUpdate"}

RefreshNext ==
    \/ /\ boardOps < MaxBoardOps
       /\ \E trigger \in RefreshTriggers : RefreshLeaderboard(trigger)
    \/ \E i \in 1..Len(pendingQueries) : QueryAnswered(i)
    \/ \E i \in 1..Len(pendingQueries) : QueryFailed(i)
    \/ UpdateRefreshed
    \/ /\ cacheBudget.calls < MaxTopCalls
       /\ GetTopUsersFromDatabase(RefreshLimit, "")
    \/ SubscribeToUpdates("listener")
    \/ \E ms \in {60000, 120000} : AdvanceClock(ms)
    \/ StoreChanged
    \/ ClearExpiredCache

RefreshSpec == CacheInit /\ [][RefreshNext]_vars

\* ------------------------------------------------------------- properties
\* The session with this quiz id has been through endQuiz.
hasEnded(id) == \E i \in 1..Len(quizResults) : quizResults[i].quizId = id

\* C1: the answer list holds at most one record per question index and is
\* never longer than the question list.
C1_OneRecordPerQuestion ==
    /\ Len(userAnswers) <= Len(questions)
    /\ \A i, j \in 1..Len(userAnswers) :
           i # j => userAnswers[i].questionIndex # userAnswers[j].questionIndex

\* C2: a session that has been through endQuiz is never active again, and a
\* submitAnswer that runs while no session is active changes neither the
\* answer list, nor the score, nor the question index.
C2_NoResume ==
    /\ [](isQuizActive /\ currentQuiz # NoQuiz => ~hasEnded(currentQuiz.id))
    /\ [][(~isQuizActive /\ pendingSubmits # << >>
              /\ pendingSubmits' = Tail(pendingSubmits))
            => (/\ userAnswers' = userAnswers
                /\ score' = score
                /\ currentQuestionIndex' = currentQuestionIndex
                /\ lastSubmit' = "failure")]_vars

\* C3: the result of a session is computed and saved once: no two saved
\* results carry the same quiz id.
C3_ResultSavedOnce ==
    \A i, j \in 1..Len(quizResults) :
        i # j => quizResults[i].quizId # quizResults[j].quizId

\* C4: a session that is active is eventually ended, with its result saved,
\* when the countdown keeps ticking and no other startQuiz is issued.
C4_ActiveLeadsToEnded ==
    \A c \in CallIds :
        (isQuizActive /\ currentQuiz.id = c) ~> (~isQuizActive /\ hasEnded(c))

\* C4 witness: the countdown ran out on a session with a question that was
\* never answered, and that ended the session.
C4_Witness ==
    /\ ~isQuizActive
    /\ timeRemaining = 0
    /\ Len(questions) > 0
    /\ userAnswers = << >>
    /\ currentQuiz # NoQuiz /\ hasEnded(currentQuiz.id)

\* C5: timeRemaining is never below 0 and never above 30 * questionCount of
\* the current quiz, and a countdown tick lowers it by exactly 1.
C5_TimeRemainingInRange ==
    /\ [](timeRemaining >= 0)
    /\ [](currentQuiz # NoQuiz /\ isQuizActive
             => timeRemaining <= TimePerQuestion * currentQuiz.questionCount)
    /\ [][ticks' = ticks + 1 => timeRemaining' = timeRemaining - 1]_vars

\* C6: between the end of a session and the next startQuiz no countdown
\* changes timeRemaining.
C6_NoCountdownAfterEnd ==
    [][(/\ ~isQuizActive
        /\ currentQuiz # NoQuiz /\ hasEnded(currentQuiz.id)
        /\ calls' = calls)
       => timeRemaining' = timeRemaining]_vars

\* C7: a saved result covers the answered questions only: its question total
\* is the number of answer records and its incorrect count the number of
\* records marked incorrect.
C7_ResultCoversAnswered ==
    \A i \in 1..Len(quizResults) :
        LET r == quizResults[i]
        IN  /\ r.totalQuestions = Len(r.answers)
            /\ r.incorrectAnswers =
                   Cardinality({k \in 1..Len(r.answers) : ~r.answers[k]})
            /\ r.correctAnswers + r.incorrectAnswers = Len(r.answers)

\* C9: when a startQuiz call returns a failure, no session is active and no
\* countdown timer is set.
C9_FailedStartLeavesIdle ==
    [][\A c \in CallIds :
          (calls[c].pc # "failed" /\ calls'[c].pc = "failed")
              => (~isQuizActive' /\ timer' = NoTimer)]_vars

\* The placeholder questions that pass both filters, and those that pass the
\* category filter.
matchesCategory(q, category) ==
    category \in {"", "all"} \/ toLowerCase(q.category) = toLowerCase(category)
matchesDifficulty(q, difficulty) ==
    difficulty \in {"", "all"} \/ toLowerCase(q.difficulty) = toLowerCase(difficulty)
placeholdersMatching(category, difficulty) ==
    {i \in 1..Len(placeholderQuestions) :
        /\ matchesCategory(placeholderQuestions[i], category)
        /\ matchesDifficulty(placeholderQuestions[i], difficulty)}
rowsMatching(category, difficulty) ==
    {i \in 1..Len(questionsTable) :
        /\ (category \in {"", "all"} \/ questionsTable[i].category = category)
        /\ (difficulty \in {"", "all"} \/ questionsTable[i].difficulty = difficulty)}

idsOf(list) == {list[i].id : i \in 1..Len(list)}
servedByPlaceholders == idsOf(loadResult) \subseteq idsOf(placeholderQuestions)
servedByDatabase == idsOf(loadResult) \subseteq idsOf(questionsTable)

onlyCategoryMatches ==
    /\ loadRequest.made
    /\ placeholdersMatching(loadRequest.category, loadRequest.difficulty) = {}
    /\ placeholdersMatching(loadRequest.category, "all") # {}

\* C10 as claimed: when no question passes both filters but some pass the
\* category filter, only questions of that category are returned.
C10_RelaxesDifficultyFirst ==
    (onlyCategoryMatches /\ servedByPlaceholders) =>
        \A i \in 1..Len(loadResult) :
            matchesCategory(loadResult[i], loadRequest.category)

\* C10 as amended: when no placeholder passes both filters the list is drawn
\* from the whole placeholder list, with no category-only step: it has
\* min(n, 10) entries however few questions the category has.
C10_FallsBackToWholeList ==
    (onlyCategoryMatches /\ servedByPlaceholders) =>
        Len(loadResult) = Min(loadRequest.count, Len(placeholderQuestions))

\* C10 witness: nothing passed both filters, the category had questions, and
\* the list holds more questions than the category has.
C10_Witness ==
    /\ onlyCategoryMatches
    /\ servedByPlaceholders
    /\ Len(loadResult) >
           Cardinality(placeholdersMatching(loadRequest.category, "all"))

\* The question the scoring engine was called with, and its base value.
scoredQuestion ==
    IF answerCall.origin = "store" THEN transformQuestion(answerCall.question)
    ELSE answerCall.question
knownDifficulty == scoredQuestion.difficulty \in {"easy", "medium", "hard"}

\* C11: a correct answer to a question of difficulty easy, medium or hard
\* earns at least 1 point, whatever the time spent and the streak.
C11_CorrectEarnsAtLeastOne ==
    (answerCall.made /\ answerCall.isCorrect /\ knownDifficulty)
        => answerResult.finalPoints >= 1

\* C11 witness: a correct answer whose bonuses and base add up to less than
\* 1, so that only the floor gives it its point.
C11_Witness ==
    /\ answerCall.made /\ answerCall.isCorrect /\ knownDifficulty
    /\ answerResult.basePoints + sumAmounts(answerResult.bonuses) < 1
    /\ answerResult.finalPoints = 1

C13_CorrectAnswerPoints ==
    (/\ answerCall.made /\ answerCall.isCorrect /\ knownDifficulty
     /\ answerResult.basePoints > 0) =>
        LET base == answerResult.basePoints
            threshold == CASE scoredQuestion.difficulty = "easy" -> 10
                           [] scoredQuestion.difficulty = "medium" -> 15
                           [] OTHER -> 20
            streak == IF answerCall.consecutiveCorrect >= 2 THEN base \div 2 ELSE 0
            speed == IF answerCall.timeSpent <= threshold
                     THEN (base * (threshold - answerCall.timeSpent) * 3)
                              \div (threshold * 10)
                     ELSE 0
            hard == IF scoredQuestion.difficulty = "hard" THEN base \div 5 ELSE 0
            items == (IF answerCall.consecutiveCorrect >= 2 THEN 1 ELSE 0)
                       + (IF speed > 0 THEN 1 ELSE 0)
                       + (IF scoredQuestion.difficulty = "hard" THEN 1 ELSE 0)
        IN  /\ answerResult.finalPoints = base + streak + speed + hard
            /\ Len(answerResult.bonuses) = items

\* C14: the total returned by calculateTotalScore is never negative, whatever
\* the mix of positive and negative answer points, the empty list included.
C14_TotalNeverNegative ==
    totalCall.made => totalResult.totalPoints >= 0

\* C14 witness: the answer points and completion bonuses add up to less than
\* 0 and the total returned is 0.
C14_Witness ==
    /\ totalCall.made
    /\ sumPoints(totalCall.answers) + sumAmounts(totalResult.completionBonuses) < 0
    /\ totalResult.totalPoints = 0

\* The amount of the completion bonus of this type in the result, 0 when it
\* was not awarded.
completionBonus(type) ==
    LET at == {i \in 1..Len(totalResult.completionBonuses) :
                  totalResult.completionBonuses[i].type = type}
    IN  IF at = {} THEN 0 ELSE totalResult.completionBonuses[CHOOSE i \in at : TRUE].amount

\* C15: each completion bonus is awarded exactly when its condition holds:
\* perfect_score (10 per answer) iff all answers are correct, otherwise
\* high_accuracy (5) iff accuracy >= 90; completion (2) iff 10 or more
\* answers; speed_completion (3) iff less than half the time limit has
\* elapsed and accuracy >= 70; category_mastery (8) iff a category other than
\* "all" was chosen and all answers are correct.
C15_CompletionBonuses ==
    totalCall.made =>
        LET n == Len(totalCall.answers)
            correct == totalResult.correctAnswers
            info == totalCall.quizInfo
            perfect == n > 0 /\ correct = n
            when(condition, amount) == IF condition THEN amount ELSE 0
        IN  /\ completionBonus("perfect_score") = when(perfect, 10 * n)
            /\ completionBonus("high_accuracy") =
                   when(~perfect /\ n > 0 /\ 10 * correct >= 9 * n, 5 * n)
            /\ completionBonus("completion") = when(n >= 10, 2 * n)
            /\ completionBonus("speed_completion") =
                   when(/\ 2 * info.timeSpent < info.timeLimit
                        /\ n > 0 /\ 10 * correct >= 7 * n, 3 * n)
            /\ completionBonus("category_mastery") =
                   when(info.category \notin {"", "all"} /\ perfect, 8 * n)

\* C16: a question without a point value of its own whose difficulty is not
\* easy, medium or hard is scored with the medium base value, whether it is
\* handed to the scoring engine as it is or comes from the questions table.
C16_UnknownDifficultyScoresMedium ==
    (/\ answerCall.made
     /\ answerCall.question.points = 0
     /\ answerCall.question.difficulty \notin {"easy", "medium", "hard"})
        => answerResult.basePoints = MediumPoints

\* Each entry of the list has at least as many points as the next one.
descendingByPoints(list) ==
    \A i \in 1..(Len(list) - 1) : list[i].totalPoints >= list[i + 1].totalPoints

\* Each entry of the list has more points than the next one.
strictlyDescendingByPoints(list) ==
    \A i \in 1..(Len(list) - 1) : list[i].totalPoints > list[i + 1].totalPoints

\* Each entry's rank is its 1-based position in the list.
ranksArePositions(list) == \A i \in 1..Len(list) : list[i].rank = i

\* C17, as the code has it: when updateUserScore has completed without a
\* backend, no entry of the list has fewer points than the entry after it;
\* entries with equal points may follow one another.
C17_SortedAfterUpdate ==
    lastBoardOp = "updated" =>
        /\ descendingByPoints(leaderboardData)
        /\ lastNotification.data = leaderboardData

\* C17 as stated: when updateUserScore has completed without a backend, each
\* entry of the list has strictly more points than the entry after it.
C17_StrictlySortedAfterUpdate ==
    lastBoardOp = "updated" => strictlyDescendingByPoints(leaderboardData)

\* updateUserScore has completed and two entries have the same points.
C17_Witness ==
    /\ lastBoardOp = "updated"
    /\ ~strictlyDescendingByPoints(leaderboardData)
    /\ \E i \in 1..Len(leaderboardData) :
           leaderboardData[i].id = "2" /\ leaderboardData[i].totalPoints = 15420

\* C18: without a backend, after any sequence of updateUserScore,
\* getTopUsers and simulated changes, every entry's rank is its 1-based
\* position, the order agrees with the totals, and so does every list
\* getTopUsers returned; in the list 100/100/50, the third user with 60 more
\* points is first with 110.
C18_RanksFollowTotals ==
    /\ ranksArePositions(leaderboardData)
    /\ descendingByPoints(leaderboardData)
    /\ lastTopUsers.made =>
           /\ ranksArePositions(lastTopUsers.users)
           /\ descendingByPoints(lastTopUsers.users)
    /\ \A i \in 1..Len(leaderboardData) :
           ( /\ Len(leaderboardData) = 3
             /\ leaderboardData[i].id = "3"
             /\ leaderboardData[i].totalPoints = 110
             /\ \A j \in 1..3 : j # i => leaderboardData[j].totalPoints = 100 )
           => i = 1 /\ leaderboardData[i].rank = 1

\* The third user of the list 100/100/50 got 60 points and is first, and
\* getTopUsers has returned a list after an update.
C18_Witness ==
    /\ Len(leaderboardData) = 3
    /\ leaderboardData[1].id = "3"
    /\ leaderboardData[1].totalPoints = 110
    /\ leaderboardData[2].totalPoints = 100
    /\ lastBoardOp = "top"
    /\ lastTopUsers.made
    /\ lastTopUsers.users = topSlice(leaderboardData, 2)

\* The callbacks of a list of callbacks.
callbacksOf(list) == {list[i] : i \in 1..Len(list)}

\* C19: whenever the leaderboard notifies, every callback subscribed when
\* the notification starts is invoked with the current ranked list, and no
\* callback whose unsubscribe function has been called is invoked.
C19_NotifiesEverySubscriber ==
    lastNotification.made =>
        /\ callbacksOf(lastNotification.subscribedAtStart)
               \subseteq callbacksOf(lastNotification.invoked)
        /\ callbacksOf(lastNotification.invoked)
               \cap lastNotification.unsubscribedAtStart = {}
        /\ ranksArePositions(lastNotification.data)
        /\ lastBoardOp \in {"updated", "simulated"} =>
               lastNotification.data = leaderboardData

\* C20: with a backend, a getTopUsers call whose (category, limit) the store
\* answered at most two minutes before is served that answer from the cache
\* without a query; any other call queries the store; and a call served
\* from the cache gets a result of its own category and limit.
C20_CachedForTwoMinutes ==
    lastTopCall.made =>
        LET before == lastTopCall.fetchedBefore
            fresh == before.known /\ lastTopCall.at - before.at <= CacheTtl
        IN  /\ fresh => /\ lastTopCall.served = "cache"
                        /\ lastTopCall.result = before.result
            /\ ~fresh => lastTopCall.served = "store"
            /\ lastTopCall.served = "cache" =>
                   /\ lastTopCall.result.category = requestedCategory(lastTopCall.category)
                   /\ lastTopCall.result.users =
                          topSlice(lastTopCall.result.users, lastTopCall.limit)
                   /\ \E version \in 0..storeVersion :
                          lastTopCall.result =
                              databaseResult(lastTopCall.category, lastTopCall.limit, version)

\* A call is served from the cache exactly two minutes after the store's
\* answer, with rows the store has changed since, and the query of an
\* earlier call with another limit is still open.
C20_Witness ==
    /\ lastTopCall.made
    /\ lastTopCall.served = "cache"
    /\ lastTopCall.at - lastTopCall.fetchedBefore.at = CacheTtl
    /\ lastTopCall.result #
           databaseResult(lastTopCall.category, lastTopCall.limit, storeVersion)
    /\ \E i \in 1..Len(pendingQueries) : pendingQueries[i].limit # lastTopCall.limit

\* C27: deferred work of an earlier session never changes a later session:
\* the question index of a session changes only through the session's own
\* answers, so once startQuiz has returned it never runs ahead of the
\* answers the session has recorded.
C27_LeftoverWorkLeavesNewSessionAlone ==
    (currentQuiz # NoQuiz /\ \A c \in CallIds : ~inFlight(c)) =>
        currentQuestionIndex <= Len(userAnswers)

\* The number of TRUE entries at the end of a list of booleans.
RECURSIVE trailingRun(_)
trailingRun(flags) ==
    IF flags = << >> \/ ~flags[Len(flags)] THEN 0
    ELSE 1 + trailingRun(SubSeq(flags, 1, Len(flags) - 1))

\* The answer scored last got the streak bonus.
gotStreakBonus ==
    \E i \in 1..Len(lastScoring.bonuses) : lastScoring.bonuses[i].type = "streak"

\* C26: the consecutive-correct count passed to the scoring for an answer is
\* the length of the run of correct records at the end of the answer list
\* at that moment; the answer gets the streak bonus exactly when it is
\* correct and the two records before it are correct; after a miss the
\* count is 0.
C26_StreakCountIsTrailingRun ==
    lastScoring.made =>
        LET before == lastScoring.answersBefore
            n == Len(before)
        IN  /\ lastScoring.consecutiveCorrect = trailingRun(before)
            /\ gotStreakBonus <=>
                   /\ lastScoring.isCorrect
                   /\ n >= 2 /\ before[n] /\ before[n - 1]
            /\ (n >= 1 /\ ~before[n]) => lastScoring.consecutiveCorrect = 0

\* A third correct answer in a row got the streak bonus, after an earlier
\* miss had been recorded.
C26_Witness ==
    /\ lastScoring.made
    /\ lastScoring.answersBefore = << FALSE, TRUE, TRUE >>
    /\ lastScoring.isCorrect
    /\ lastScoring.consecutiveCorrect = 2
    /\ gotStreakBonus

\* The step is a submitAnswer call for a question that is open.
submitsOpenQuestion ==
    /\ pendingSubmits # << >>
    /\ pendingSubmits' = Tail(pendingSubmits)
    /\ isQuizActive
    /\ currentQuestionIndex < Len(questions)

\* C22: when the store rejects the write of an answer or of the session
\* progress, or the write throws, submitAnswer still records the answer,
\* returns success and schedules the move to the next question or the end;
\* the failure is only logged.
C22_StoreFailureNeverBlocks ==
    [][ (submitsOpenQuestion /\ storeHealth # healthyStore) =>
            /\ Len(userAnswers') = Len(userAnswers) + 1
            /\ lastSubmit' = "success"
            /\ pendingAdvances' = pendingAdvances + 1
            /\ errorLog' # {}
            /\ isQuizActive' = isQuizActive ]_vars

\* With a store whose answer writes throw and whose session writes are
\* rejected, the only question was answered, both failures were logged and
\* the session has ended with the answer in its result.
C22_Witness ==
    /\ storeHealth = [answers |-> "throws", sessions |-> "rejected"]
    /\ lastSubmit = "success"
    /\ errorLog = {"Error saving answer to database", "Failed to update quiz session"}
    /\ Len(userAnswers) = 1
    /\ currentQuestionIndex = 1
    /\ lastEnd = "results"
    /\ Len(quizResults) = 1

\* C21: every session that ends leads to the user's statistics being
\* updated and to updateUserScore being called with the session's final
\* score, with and without a backend: when the save of a signed-in user's
\* ended session has run to its end, both have happened.
C21_EndedSessionReachesLeaderboard ==
    (saveCall.pc = "done" /\ saveCall.signedIn) =>
        /\ saveCall.statsUpdated
        /\ saveCall.leaderboardCalled
        /\ scoreUpdates # << >>
        /\ scoreUpdates[Len(scoreUpdates)] = saveCall.score

\* C28: with a backend, a signed-in user's completed session, whose session
\* row and profile the store has and updates, adds its final score to the
\* profile's total_points exactly once and 1 to quizzes_completed.
C28_ScoreAddedExactlyOnce ==
    ( /\ backend
      /\ saveCall.pc = "done"
      /\ saveCall.statsUpdated
      /\ sessionRow.exists
      /\ storeHealth = healthyStore )
    => /\ profile.total_points = saveCall.before.total_points + saveCall.score
       /\ profile.quizzes_completed = saveCall.before.quizzes_completed + 1

\* C23: when each failure of an operation is handed back to handleApiError
\* under the same key, the retries of a non-4xx failure wait 1 s, 2 s and
\* 4 s, there are at most three of them, and after the third failed retry
\* the failure is reported to the user instead of being retried.
C23_AtMostThreeRetries ==
    /\ Len(retryDelays) <= MaxRetries
    /\ \A i \in 1..Len(retryDelays) : retryDelays[i] = pow2(i - 1) * BaseDelay
    /\ (retryCall.pc = "failed" /\ Len(retryDelays) = MaxRetries) =>
           ~shouldRetry(500, retryAttempts)
    /\ retryCall.pc = "rejected" => reported

\* The inputs of the latest register or login call.
calledEmail == CHOOSE email \in EmailSamples : email.name = authCall.email
calledUsername == CHOOSE username \in UsernameSamples : username.name = authCall.username
calledPassword == CHOOSE password \in PasswordSamples : password.name = authCall.password

\* An input of the latest call fails a check that call applies: register
\* checks the e-mail, the username and the password, login checks that both
\* inputs are there and that the e-mail is well formed.
inputFailsValidation ==
    IF authCall.op = "register"
    THEN IF securityManager
         THEN \/ ~validateInput(calledEmail, "email").isValid
              \/ ~validateInput(calledUsername, "username").isValid
              \/ ~validateInput(calledPassword, "password").isValid
         ELSE \/ ~isValidEmail(calledEmail)
              \/ ~isValidPassword(calledPassword)
              \/ calledUsername.length < MinUsernameLength
    ELSE \/ calledEmail.length = 0
         \/ calledPassword.length = 0
         \/ IF securityManager THEN ~validateInput(calledEmail, "email").isValid
                               ELSE ~isValidEmail(calledEmail)

\* C24: a register or login call whose e-mail, username or password fails
\* validation has ended with a failure result and has not made the backend
\* sign-up or sign-in call.
C24_ValidationBeforeNetwork ==
    (authCall.op # "none" /\ inputFailsValidation) =>
        /\ authCall.pc = "done"
        /\ ~authCall.success
        /\ ~authCall.networkCalled

\* A register call with a good e-mail and username and a password without a
\* special character was turned down by the security manager.
C24_Witness ==
    /\ authCall.op = "register"
    /\ securityManager
    /\ backend
    /\ authCall.email = "alice@example.com"
    /\ authCall.username = "player_1"
    /\ authCall.password = "Abcdefg1"
    /\ authCall.pc = "done"
    /\ authCall.error = "Password must contain special characters"
    /\ ~authCall.networkCalled

\* C25: when the backend turns a login down because the account is unknown
\* or because the password is wrong, handleAuthError gives the user the
\* same message in both cases, and never the backend's own text.
C25_LoginFailureHidesReason ==
    (/\ authCall.op = "login"
     /\ authCall.pc = "done"
     /\ errorHandler
     /\ authCall.error \in {wrongPassword.message, unknownAccount.message}) =>
        /\ authCall.message = handleAuthError(wrongPassword)
        /\ authCall.message # authCall.error

\* The login calls made for the e-mail of the latest one within the window
\* before it.
earlierAttempts ==
    LET last == Len(loginAttempts)
    IN  {i \in 1..(last - 1) :
            /\ loginAttempts[i].email = loginAttempts[last].email
            /\ loginAttempts[last].time - loginAttempts[i].time < LoginWindow}

\* C29: a login call made after five login calls for the same e-mail within
\* the window is refused as one attempt too many and does not reach the
\* backend sign-in call.
C29_LoginRateLimited ==
    (/\ authCall.op = "login"
     /\ loginAttempts # << >>
     /\ Cardinality(earlierAttempts) >= AllowedAttempts) =>
        /\ authCall.refused
        /\ ~authCall.networkCalled

\* C30: with a backend, the list a refresh hands to the subscribers, after
\* updateUserScore or after a pushed change, is the first fifty rows the
\* store has at that time.
C30_RefreshDeliversStoreRows ==
    lastRefresh.made => lastRefresh.delivered = lastRefresh.storeRows
====
